---- MODULE Spec2Model ----
(***************************************************************************)
(* Verification model of the DTD link-layer stack (JOM52/DTD):             *)
(*   - ta/ta_radio_433.py : binary frame codec, exchange engine, polling   *)
(*   - ta/ta_app.py       : terminal state table and main loop             *)
(*   - dd/main.py         : detector responder, identity, watchdog         *)
(* Bytes are integers 0..255, byte strings are sequences of bytes, text    *)
(* strings are sequences of one-character strings.                         *)
(***************************************************************************)
EXTENDS Integers, Sequences, FiniteSets, TLC

VARIABLES
    \* ---- frame codec harness (ta_radio_433.py, _mk_frame/_parse_frame)
    c_pc,        \* "input" | "encoded" | "decoded"
    c_cmd,       \* command byte given to _mk_frame
    c_gid,       \* target id given to _mk_frame
    c_payload,   \* payload given to _mk_frame
    c_frame,     \* bytes returned by _mk_frame (ValueError when it raised)
    c_parsed,    \* value returned by _parse_frame (None or <<cmd, gid, payload>>)
    \* ---- terminal: Radio (ta_radio_433.py) and TaApp (ta_app.py)
    RETRY_CFG,   \* RADIO["RETRY"]; the multiplier is the fraction MULT_NUM / MULT_DEN
    simulate,    \* Radio.simulate
    _tick,       \* Radio._tick
    _sim_states, \* Radio._sim_states
    states,      \* TaApp.states
    a_op,        \* operation in progress: "none" | "poll" | "request" | "retry" | "exchange"
    p_idx,       \* poll_status: index into GROUP_IDS of the device being polled
    out,         \* poll_status: the list being built
    last_out,    \* value returned by the last poll_status call
    req_id,      \* request_status: its dd_id argument
    req_ret,     \* value returned by the last request_status call
    attempt,     \* _exchange_with_retry: loop variable
    r_pc,        \* "idle" | "attempt" | "rx" | "ret"
    x_cmd,       \* _exchange: cmd argument
    x_gid,       \* _exchange: gid argument
    x_timeout,   \* _exchange: timeout_ms argument
    x_buf,       \* _exchange: buf
    x_read,      \* _exchange: the while loop has run at least once
    x_ret,       \* value returned by _exchange / _exchange_with_retry
    t_hist,      \* timeouts passed to _exchange by the current _exchange_with_retry
    b_hist,      \* backoff sleeps done by the current _exchange_with_retry
    uart_rx,     \* bytes waiting in the UART receive FIFO (uart.any() of them)
    air,         \* bytes of a transmission still on their way to the UART
    n_tx,        \* transmissions the link has carried towards the terminal
    last_tx,     \* last bytes handed to uart.write
    stats,       \* Radio.stats is a RadioStats (TRUE) or None (FALSE)
    tx_count,    \* stats.tx_count
    tx_errors,   \* stats.tx_errors
    rx_count,    \* stats.rx_count
    rx_errors,   \* stats.rx_errors
    timeouts,    \* stats.timeouts
    uart_faulty, \* the UART of this run can raise in write, any and read
    n_faults,    \* how often it has raised
    w_ret,       \* value returned by the last _write
    x_fault,     \* what raised in the last _write or _read_all: "none" | "write" | "read"
    x_raised,    \* an exception has left _write or _read_all
    \* ---- detectors (dd/main.py), one entry per detector on the link
    population,  \* the detectors that are switched on
    DETECTOR_ID, \* DETECTOR_ID
    dd_buf,      \* buf, the line buffer
    d_pc,        \* "top": at line 176 | "lines": inside the while of line 186
    ok_count,    \* ok_count
    nok_count,   \* nok_count
    setid_ok_count,  \* setid_ok_count
    setid_err_count, \* setid_err_count
    nvs,         \* blob "id" of NVS namespace "dd" (None when absent)
    last_disp,   \* what the last dispatched line was and how persisting went
    dd_rx,       \* bytes waiting in the detector's UART (uart.any())
    dd_air,      \* pieces of the current line still on their way to the UART
    dd_tx,       \* the strings handed to uart.write, in order
    n_lines,     \* lines put on the link so far
    \* ---- one detector's watchdog (dd/main.py lines 97-122, 175-176, 244)
    now,             \* time.ticks_ms()
    last_loop_ts,    \* last_loop_ts
    _wdt_triggered,  \* _wdt_triggered
    loop_state,      \* "off" | "run": the main loop iterates | "stalled"
    next_stamp,      \* when the running iteration ends and line 176 runs again
    next_fire,       \* when wdt_timer fires next
    wdt_stack,       \* positions of the wdt_cb invocations in progress, innermost last
    n_enter,         \* how often line 114 has run
    n_guard,         \* how often the guard of line 111 has returned
    n_reenter,       \* firings that interrupted a running wdt_cb
    was_reset,       \* reset() has been called
    reset_at,        \* the time reset() was called at
    \* ---- bytes handed to _parse_frame (ta_radio_433.py lines 104-119)
    w_pc,        \* "off" | "input" | "sent" | "received" | "parsed"
    w_cmd,       \* cmd the frame was made with
    w_gid,       \* gid the frame was made with
    w_payload,   \* payload the frame was made with
    w_sent,      \* what _mk_frame returned
    w_damage,    \* what happened to the bytes on their way
    w_buf,       \* the bytes handed to _parse_frame
    w_parsed,    \* what _parse_frame returned
    \* ---- one line handed to parse_line (dd/main.py lines 125-141)
    pl_pc,       \* "off" | "input" | "parsed"
    pl_lead,     \* what precedes the verb
    pl_head,     \* the verb with its separator
    pl_arg,      \* the argument: as received, and trimmed
    pl_end,      \* the line ending
    pl_ret,      \* what parse_line returned
    \* ---- a detector booting (dd/main.py lines 17-79)
    bt_pc,       \* "off" | "boot" | "up"
    bt_config,   \* what config.DETECTOR_ID is, if the module can be imported
    bt_nvs,      \* whether NVS can be opened, and the blob stored under "id"
    bt_pins,     \* whether the strap pins can be read, and their three values
    bt_id,       \* DETECTOR_ID once resolved
    \* ---- the two control loops (ta_app.py lines 134-158, dd/main.py 175-244)
    tl_pc,           \* terminal: "feed" | "update" | "refresh" | "testing" | "off"
    loop_count,      \* TaApp.loop_count
    error_count,     \* TaApp.error_count
    testing_id,      \* TaApp.testing_id, 0 for None (both fail the test of line 103)
    tl_fault,        \* kind of the fault the terminal's last step met
    wdt,             \* TaApp.wdt is a WDT (TRUE) or None (FALSE)
    n_feeds,         \* how often wdt.feed() has been called
    dl_pc,           \* detector: "stamp" | "body" | "sleep" | "off"
    dl_loop_count,   \* detector's loop_count
    dl_ok_count,     \* detector's ok_count
    dl_setid_ok_count,   \* detector's setid_ok_count
    dl_setid_err_count,  \* detector's setid_err_count
    dl_fault,        \* kind of the fault the detector's last iteration met
    \* ---- one physical sweep of poll_status over the shipped devices
    sw_pc,           \* "off" | "fed" | "attempt" | "swept"
    sw_idx,          \* position of gid in GROUP_IDS (line 324)
    sw_attempt,      \* attempt of _exchange_with_retry (line 261)
    sw_ms,           \* milliseconds gone since feed_watchdog
    sw_silent,       \* every exchange of the sweep has timed out so far
    \* ---- record of one detector's link, kept beside the detector
    sent_log,        \* the lines put on the link, in order
    disp_log,        \* the lines the detector cut off its buffer, in order,
                     \* each with how persisting went
    boot_id,         \* the identifier the detector entered its loop with
    \* ---- one call made twice, with statistics and without
    tw_phase,        \* whose step is due: "lead", "follow", between them
                     \* "handover" and "compare"; "off" elsewhere
    tw_sig,          \* the operation the leading radio has just done and
                     \* what the transport did in it
    tw_other,        \* the radio that is not at work
    \* ---- the display (ta/ta_ui.py) under TaApp._refresh_ui
    ui_pc,           \* "poll": _update_states is next, "refresh": _refresh_ui
    _dirty_tracking, \* UI._dirty_tracking, from config.UI["DIRTY_TRACKING"]
    groups,          \* UI.groups[i]["state"]
    _group_states_cache,
    _dirty_groups,
    screen,          \* the state text last drawn in each box
    \* ---- Radio.__init__ (ta_radio_433.py lines 176-218)
    k_pc,            \* "uart": UART(...) is next, "ping": check_hardware is
                     \* running, "done": the radio is built, "off" elsewhere
    SIMULATE,        \* RADIO["SIMULATE"] as configured
    uart_open,       \* self.uart is a UART, not None
    n_pings,         \* pings check_hardware has made
    k_raised,        \* UART(...) raised
    k_last           \* what the last ping of check_hardware got from _exchange

codecVars == <<c_pc, c_cmd, c_gid, c_payload, c_frame, c_parsed>>

taVars == <<RETRY_CFG, simulate, _tick, _sim_states, states, a_op, p_idx, out,
            last_out, req_id, req_ret, attempt, r_pc, x_cmd, x_gid, x_timeout,
            x_buf, x_read, x_ret, t_hist, b_hist, uart_rx, air, n_tx, last_tx,
            stats, tx_count, tx_errors, rx_count, rx_errors, timeouts,
            uart_faulty, n_faults, w_ret, x_fault, x_raised>>

\* the radio and the table of states, statistics apart
taCore == <<RETRY_CFG, simulate, _tick, _sim_states, states, a_op, p_idx, out,
            last_out, req_id, req_ret, attempt, r_pc, x_cmd, x_gid, x_timeout,
            x_buf, x_read, x_ret, t_hist, b_hist, uart_rx, air, n_tx, last_tx>>

\* the statistics and fault records of the radio, by who writes them
statCfg == <<stats, uart_faulty>>
txStat == <<tx_count, tx_errors, w_ret>>
rxStat == <<rx_count, rx_errors>>
faultRec == <<n_faults, x_fault, x_raised>>
statVars == <<statCfg, txStat, rxStat, timeouts, faultRec>>

ddVars == <<population, DETECTOR_ID, dd_buf, d_pc, ok_count, nok_count,
            setid_ok_count, setid_err_count, nvs, last_disp, dd_rx, dd_air,
            dd_tx, n_lines>>

wdVars == <<now, last_loop_ts, _wdt_triggered, loop_state, next_stamp, next_fire,
            wdt_stack, n_enter, n_guard, n_reenter, was_reset, reset_at>>

wireVars == <<w_pc, w_cmd, w_gid, w_payload, w_sent, w_damage, w_buf, w_parsed>>

plVars == <<pl_pc, pl_lead, pl_head, pl_arg, pl_end, pl_ret>>

bootVars == <<bt_pc, bt_config, bt_nvs, bt_pins, bt_id>>
ctorVars == <<k_pc, SIMULATE, uart_open, n_pings, k_raised, k_last>>
uiVars == <<ui_pc, _dirty_tracking, groups, _group_states_cache, _dirty_groups, screen>>
twinVars == <<tw_phase, tw_sig, tw_other>>
logVars == <<sent_log, disp_log, boot_id>>
sweepVars == <<sw_pc, sw_idx, sw_attempt, sw_ms, sw_silent>>
loopVars == <<tl_pc, loop_count, error_count, testing_id, tl_fault, wdt, n_feeds, dl_pc,
              dl_loop_count, dl_ok_count, dl_setid_ok_count, dl_setid_err_count,
              dl_fault>>

----------------------------------------------------------------------------
(* Python values *)

\* Python's None, for functions returning a tuple or None
None == <<>>

\* the frame value standing for "raise ValueError" in _mk_frame
ValueError == <<-1>>

Max(a, b) == IF a >= b THEN a ELSE b

----------------------------------------------------------------------------
(* ta_config.py RADIO["FRAME"] and command bytes *)

START_BYTE == 165
END_BYTE == 90
PROTO_VER == 1
MAX_LEN == 16
CMD_PING == 16
CMD_GET_STS == 32
CMD_SET_MODE == 48

STATE_UNKNOWN == 0
STATE_PRESENT == 1
STATE_ABSENT == 2

----------------------------------------------------------------------------
(* 8-bit arithmetic *)

RECURSIVE XorBits(_, _, _)
XorBits(a, b, n) ==
    IF n = 0 THEN 0
    ELSE (((a % 2) + (b % 2)) % 2) + 2 * XorBits(a \div 2, b \div 2, n - 1)

\* a ^ b on values already reduced to 8 bits; each operand is evaluated once
Xor8(a, b) ==
    CHOOSE r \in {XorBits(x, y, 8) : x \in {a % 256}, y \in {b % 256}} : TRUE

\* buf[lo:hi] of Python (0-based, hi exclusive, clipped to the length)
Slice(buf, lo, hi) ==
    LET h == IF hi > Len(buf) THEN Len(buf) ELSE hi
    IN  IF lo >= h THEN <<>> ELSE SubSeq(buf, lo + 1, h)

RECURSIVE XorAll(_, _)
XorAll(s, payload) ==
    IF payload = <<>> THEN s
    ELSE XorAll(Xor8(s, Head(payload) % 256), Tail(payload))

----------------------------------------------------------------------------
(* Frame codec: ta_radio_433.py lines 87-119 *)

_chk(ver, cmd, grp, payload) ==
    XorAll(Xor8(Xor8(Xor8(ver, cmd), grp % 256), Len(payload)), payload) % 256

\* a checksum that forgets the payload-length byte
_mk_frame_nolen(cmd, gid, payload) ==
    IF Len(payload) > MAX_LEN - 7 THEN ValueError
    ELSE <<START_BYTE, PROTO_VER % 256, cmd, gid % 256, Len(payload) % 256>>
         \o payload
         \o <<XorAll(Xor8(Xor8(PROTO_VER % 256, cmd), gid % 256), payload), END_BYTE>>

\* a _mk_frame that lets one more payload byte through
_mk_frame_loose(cmd, gid, payload) ==
    IF Len(payload) > MAX_LEN - 6 THEN ValueError
    ELSE <<START_BYTE, PROTO_VER % 256, cmd, gid % 256, Len(payload) % 256>>
         \o payload
         \o <<_chk(PROTO_VER % 256, cmd, gid % 256, payload), END_BYTE>>

_mk_frame(cmd, gid, payload) ==
    IF Len(payload) > MAX_LEN - 7 THEN ValueError
    ELSE LET ver == PROTO_VER % 256
             g   == gid % 256
             ln  == Len(payload) % 256
             chk == _chk(ver, cmd, g, payload)
         IN  <<START_BYTE, ver, cmd, g, ln>> \o payload \o <<chk, END_BYTE>>

\* a _parse_frame that does not look at the end marker
_parse_frame_noend(buf) ==
    IF Len(buf) < 7 THEN None
    ELSE IF buf[1] # START_BYTE THEN None
    ELSE IF 5 + buf[5] + 2 # Len(buf) THEN None
    ELSE IF _chk(buf[2], buf[3], buf[4], Slice(buf, 5, 5 + buf[5])) # buf[5 + buf[5] + 1]
         THEN None
    ELSE <<buf[3], buf[4], Slice(buf, 5, 5 + buf[5])>>

\* a _parse_frame that does not compare the checksum
_parse_frame_nochk(buf) ==
    IF Len(buf) < 7 THEN None
    ELSE IF buf[1] # START_BYTE \/ buf[Len(buf)] # END_BYTE THEN None
    ELSE IF 5 + buf[5] + 2 # Len(buf) THEN None
    ELSE <<buf[3], buf[4], Slice(buf, 5, 5 + buf[5])>>

_parse_frame(buf) ==
    IF Len(buf) < 7 THEN None
    ELSE IF buf[1] # START_BYTE \/ buf[Len(buf)] # END_BYTE THEN None
    ELSE LET ver == buf[2]
             cmd == buf[3]
             gid == buf[4]
             ln  == buf[5]
         IN  IF 5 + ln + 2 # Len(buf) THEN None
             ELSE LET payload == Slice(buf, 5, 5 + ln)
                      chk     == buf[5 + ln + 1]
                  IN  IF _chk(ver, cmd, gid, payload) # chk THEN None
                      ELSE <<cmd, gid, payload>>

----------------------------------------------------------------------------
(* Codec harness: inputs drawn from bounded sets, then encode, then decode *)

\* longest payload tried; one more than MAX_LEN - 7 so that the refusal happens
MaxPayLen == 10

\* byte values tried for command and target id: ends of the range, the
\* protocol's own command bytes and both marker bytes
ByteSamples == {0, 1, 2, CMD_PING, CMD_GET_STS, END_BYTE, START_BYTE, 255}

\* byte values tried inside payloads
PayBytes == {0, STATE_PRESENT, END_BYTE, START_BYTE, 255}

Fill(b, n) == [i \in 1..n |-> b]

\* a marker byte at one position of an otherwise constant payload
Mark(b, m, n, k) == [i \in 1..n |-> IF i = k THEN m ELSE b]

Payloads ==
    {<<>>}
    \cup {<<a>> : a \in PayBytes}
    \cup {<<a, b>> : a \in PayBytes, b \in PayBytes}
    \cup {Fill(b, n) : b \in PayBytes, n \in 3..MaxPayLen}
    \cup {Mark(0, m, n, n) : m \in {START_BYTE, END_BYTE}, n \in 3..MaxPayLen}

CodecInit ==
    /\ c_pc = "input"
    /\ c_cmd \in ByteSamples
    /\ c_gid \in ByteSamples
    /\ c_payload \in Payloads
    /\ c_frame = <<>>
    /\ c_parsed = None

CodecIdle ==
    /\ c_pc = "idle"
    /\ c_cmd = 0
    /\ c_gid = 0
    /\ c_payload = <<>>
    /\ c_frame = <<>>
    /\ c_parsed = None

Encode ==
    /\ c_pc = "input"
    /\ c_frame' = _mk_frame(c_cmd, c_gid, c_payload)
    /\ c_pc' = IF c_frame' = ValueError THEN "raised" ELSE "encoded"
    /\ UNCHANGED <<c_cmd, c_gid, c_payload, c_parsed>>

Decode ==
    /\ c_pc = "encoded"
    /\ c_parsed' = _parse_frame(c_frame)
    /\ c_pc' = "decoded"
    /\ UNCHANGED <<c_cmd, c_gid, c_payload, c_frame>>

----------------------------------------------------------------------------
(* Terminal configuration: ta_config.py RADIO *)

\* the configured device population, reduced to its first two ids
GROUP_IDS == <<1, 2>>
POLL_PERIOD_MS == 1500
REPLY_TIMEOUT_MS == 500

\* RADIO["RETRY"] as shipped; TIMEOUT_MULTIPLIER 1.5 is 3/2
ShippedRetry ==
    [MAX_RETRIES |-> 3, TIMEOUT_BASE_MS |-> 500, MULT_NUM |-> 3, MULT_DEN |-> 2,
     BACKOFF_ENABLED |-> TRUE, BACKOFF_MS |-> 100]

GroupIdSet == {GROUP_IDS[i] : i \in 1..Len(GROUP_IDS)}

RECURSIVE Pow(_, _)
Pow(b, n) == IF n = 0 THEN 1 ELSE b * Pow(b, n - 1)

----------------------------------------------------------------------------
(* Radio: ta_radio_433.py lines 165-346 *)

\* a status that names the device after the configured one
DDStatus_shifted(dd_id, state) == [dd_id |-> dd_id + Len(GROUP_IDS), state |-> state]

\* the fields of DDStatus that TaApp reads
DDStatus(dd_id, state) == [dd_id |-> dd_id, state |-> state]

\* a retry loop whose timeout does not grow
AttemptTimeout_flat(cfg, a) == cfg.TIMEOUT_BASE_MS

\* int(TIMEOUT_BASE_MS * (TIMEOUT_MULTIPLIER ** attempt)), the multiplier
\* taken as the exact fraction MULT_NUM / MULT_DEN
AttemptTimeout(cfg, a) ==
    (cfg.TIMEOUT_BASE_MS * Pow(cfg.MULT_NUM, a)) \div Pow(cfg.MULT_DEN, a)

\* a retry loop that also waits after its last attempt
BackoffWaits_afterLast(cfg, a) ==
    IF cfg.BACKOFF_ENABLED THEN <<cfg.BACKOFF_MS * (a + 1)>> ELSE <<>>

\* lines 272-274: the waits _sleep_ms is called with after failed attempt a
BackoffWaits(cfg, a) ==
    IF cfg.BACKOFF_ENABLED /\ a < cfg.MAX_RETRIES - 1
    THEN <<cfg.BACKOFF_MS * (a + 1)>>
    ELSE <<>>

\* buf.find(bytes([b]), start): 0-based index, -1 when absent
Find(buf, b, start) ==
    LET hits == {i \in (start + 1)..Len(buf) : buf[i] = b}
    IN  IF hits = {} THEN -1
        ELSE (CHOOSE i \in hits : \A j \in hits : i <= j) - 1

\* _exchange, lines 306-312: what one pass over the accumulated buffer
\* decodes; pkt is cut once, then parsed
ExtractFrame(buf) ==
    LET s == Find(buf, START_BYTE, 0)
        e == Find(buf, END_BYTE, s + 1)
    IN  IF s >= 0 /\ e > s
        THEN CHOOSE parsed \in {_parse_frame(pkt) : pkt \in {Slice(buf, s, e + 1)}} : TRUE
        ELSE None

\* poll_status lines 331-334 and request_status lines 344-346
StatusOf(resp) ==
    IF resp # None /\ resp[1] = CMD_GET_STS /\ Len(resp[3]) = 1
    THEN resp[3][1]
    ELSE STATE_UNKNOWN

\* TaApp._update_states, line 95, over the list poll_status returned
RECURSIVE ApplyStatuses(_, _)
ApplyStatuses(tbl, lst) ==
    IF lst = <<>> THEN tbl
    ELSE LET st == Head(lst)
             t2 == [k \in DOMAIN tbl \cup {st.dd_id} |->
                        IF k = st.dd_id THEN st.state ELSE tbl[k]]
         IN  ApplyStatuses(t2, Tail(lst))

\* poll_status line 322
Period == Max(1, POLL_PERIOD_MS \div 200)

----------------------------------------------------------------------------
(* The radio link as the terminal sees it *)

\* sweeps are cut off after this many poll_status calls
MaxTick == 14

\* transmissions the link carries towards the terminal in one run
MaxTransmits == 2

\* replies a detector population can put on the air during polling: status
\* replies with a presence state, one with another payload byte, and a reply
\* to a ping
ReplyScripts ==
    {_mk_frame(CMD_GET_STS, g, <<st>>) :
        g \in GroupIdSet, st \in {STATE_PRESENT, STATE_ABSENT}}
    \cup {_mk_frame(CMD_GET_STS, 1, <<255>>)}
    \cup {_mk_frame(CMD_PING, 0, <<79, 75>>)}

\* the reply to one status request, alone and in awkward company
GoodReply == _mk_frame(CMD_GET_STS, 1, <<STATE_PRESENT>>)

RichScripts ==
    {p \o f :
        p \in {<<>>, <<0>>, <<START_BYTE>>, <<END_BYTE>>, <<END_BYTE, 0>>},
        f \in {GoodReply,
               _mk_frame(CMD_GET_STS, 1, <<END_BYTE>>),
               _mk_frame(CMD_GET_STS, 123, <<STATE_PRESENT>>),
               _mk_frame(CMD_PING, 0, <<79, 75>>)}}
    \cup {SubSeq(GoodReply, 1, 6) \o <<0, END_BYTE>>}
    \cup {GoodReply \o <<0>>}

Scripts == IF a_op = "exchange" THEN RichScripts ELSE ReplyScripts

ChunkSizes == IF a_op = "exchange" THEN 1..Len(air) ELSE {Len(air)}

\* some contiguous part of buf is a structurally valid frame
ContainsValidFrame(buf) ==
    \E i \in 1..Len(buf) : \E j \in i..Len(buf) :
        _parse_frame(SubSeq(buf, i, j)) # None

----------------------------------------------------------------------------
(* Terminal state *)

TAFresh ==
    /\ _tick = 0
    /\ states = [g \in GroupIdSet |-> STATE_UNKNOWN]
    /\ p_idx = 0
    /\ out = <<>>
    /\ last_out = <<>>
    /\ req_id = 0
    /\ req_ret = STATE_UNKNOWN
    /\ attempt = 0
    /\ x_cmd = 0
    /\ x_gid = 0
    /\ x_timeout = 0
    /\ x_buf = <<>>
    /\ x_read = FALSE
    /\ x_ret = None
    /\ t_hist = <<>>
    /\ b_hist = <<>>
    /\ uart_rx = <<>>
    /\ air = <<>>
    /\ n_tx = 0
    /\ last_tx = <<>>
    /\ tx_count = 0
    /\ tx_errors = 0
    /\ rx_count = 0
    /\ rx_errors = 0
    /\ timeouts = 0
    /\ n_faults = 0
    /\ w_ret = 0
    /\ x_fault = "none"
    /\ x_raised = FALSE

\* TaApp.__init__ over a constructed Radio, simulated or physical, built
\* with STATS_ENABLED off (line 182): the counters are followed in the runs
\* of RetryInit, ExchangeInit and FaultInit
TAInit ==
    /\ TAFresh
    /\ stats = FALSE
    /\ uart_faulty = FALSE
    /\ RETRY_CFG = ShippedRetry
    /\ simulate \in BOOLEAN
    /\ _sim_states \in [GroupIdSet -> {STATE_PRESENT, STATE_ABSENT}]
    /\ a_op = "none"
    /\ r_pc = "idle"

TAIdle ==
    /\ TAFresh
    /\ stats = TRUE
    /\ uart_faulty = FALSE
    /\ RETRY_CFG = ShippedRetry
    /\ simulate = TRUE
    /\ _sim_states = [g \in GroupIdSet |-> STATE_PRESENT]
    /\ a_op = "off"
    /\ r_pc = "idle"

\* retry policies tried by the retry harness: base, multiplier as a fraction
RetryPolicies ==
    {<<500, 3, 2>>, <<100, 201, 200>>, <<100, 51, 50>>, <<100, 101, 100>>,
     <<150, 2, 1>>, <<500, 1, 1>>, <<1000, 11, 10>>, <<199, 201, 200>>}

RetryConfigs ==
    {[MAX_RETRIES |-> m, TIMEOUT_BASE_MS |-> p[1], MULT_NUM |-> p[2],
      MULT_DEN |-> p[3], BACKOFF_ENABLED |-> b, BACKOFF_MS |-> 100] :
        m \in 1..4, p \in RetryPolicies, b \in BOOLEAN}

\* one call _exchange_with_retry(CMD_GET_STS, 1) on a physical radio
RetryInit ==
    /\ TAFresh
    /\ stats = TRUE
    /\ uart_faulty = FALSE
    /\ RETRY_CFG \in RetryConfigs
    /\ simulate = FALSE
    /\ _sim_states = [g \in GroupIdSet |-> STATE_PRESENT]
    /\ a_op = "retry"
    /\ r_pc = "call"

\* one call _exchange_with_retry(cmd, gid) on a physical radio whose UART
\* can raise, with statistics on or off (line 182)
FaultInit ==
    /\ TAFresh
    /\ stats \in BOOLEAN
    /\ uart_faulty = TRUE
    /\ RETRY_CFG = ShippedRetry
    /\ simulate = FALSE
    /\ _sim_states = [g \in GroupIdSet |-> STATE_PRESENT]
    /\ a_op = "retry"
    /\ r_pc = "call"

\* one call _exchange(cmd, gid) on a physical radio
ExchangeInit ==
    /\ TAFresh
    /\ stats = TRUE
    /\ uart_faulty = FALSE
    /\ RETRY_CFG = ShippedRetry
    /\ simulate = FALSE
    /\ _sim_states = [g \in GroupIdSet |-> STATE_PRESENT]
    /\ a_op = "exchange"
    /\ r_pc = "call"

----------------------------------------------------------------------------
(* Radio._write (lines 228-240) and Radio._read_all (lines 242-257) on the
   real UART, with RadioStats.update_tx and update_rx (lines 135-145) *)

MaxFaults == 2

\* how a call of uart.write, or of uart.any and uart.read, can end
UartOutcomes ==
    IF uart_faulty /\ n_faults < MaxFaults THEN {"ok", "raise"} ELSE {"ok"}

\* _write without its except clause: the exception leaves the method
_write_uncaught(data, outcome) ==
    [ret       |-> IF outcome = "raise" THEN 0 ELSE Len(data),
     tx_count  |-> IF stats /\ outcome = "ok" THEN tx_count + 1 ELSE tx_count,
     tx_errors |-> tx_errors,
     raised    |-> outcome = "raise"]

\* _write with its return value taken from the statistics object
_write_gated(data, outcome) ==
    [ret       |-> IF outcome = "raise" \/ ~stats THEN 0 ELSE Len(data),
     tx_count  |-> IF stats THEN tx_count + 1 ELSE tx_count,
     tx_errors |-> IF stats /\ outcome = "raise" THEN tx_errors + 1 ELSE tx_errors,
     raised    |-> FALSE]

\* _write(data): the count uart.write returns, or 0 when it raised; with
\* statistics on, update_tx counts the write, and the error when it raised
_write(data, outcome) ==
    [ret       |-> IF outcome = "raise" THEN 0 ELSE Len(data),
     tx_count  |-> IF stats THEN tx_count + 1 ELSE tx_count,
     tx_errors |-> IF stats /\ outcome = "raise" THEN tx_errors + 1 ELSE tx_errors,
     raised    |-> FALSE]

\* _read_all(): the bytes waiting in the UART, or b"" when any or read
\* raised; with statistics on, update_rx counts a read that brought bytes,
\* and counts a read that raised as an error
_read_all(waiting, outcome) ==
    [data      |-> IF outcome = "raise" THEN <<>> ELSE waiting,
     left      |-> IF outcome = "raise" THEN waiting ELSE <<>>,
     rx_count  |-> IF stats /\ (outcome = "raise" \/ waiting # <<>>)
                   THEN rx_count + 1 ELSE rx_count,
     rx_errors |-> IF stats /\ outcome = "raise" THEN rx_errors + 1 ELSE rx_errors,
     raised    |-> FALSE]

----------------------------------------------------------------------------
(* Radio._exchange, lines 280-317 *)

\* the simulated replies of lines 281-294: <<reply, new _sim_states>>
SimReplies(cmd, gid) ==
    IF cmd = CMD_PING THEN {<<(<<CMD_PING, gid, <<79, 75>>>>), _sim_states>>}
    ELSE IF cmd = CMD_GET_STS THEN
        LET st == IF gid \in DOMAIN _sim_states THEN _sim_states[gid]
                  ELSE STATE_UNKNOWN
            fl == IF st = STATE_ABSENT THEN STATE_PRESENT ELSE STATE_ABSENT
        IN  {<<(<<CMD_GET_STS, gid, <<st>>>>), _sim_states>>}
            \cup (IF st # STATE_UNKNOWN
                  THEN {<<(<<CMD_GET_STS, gid, <<fl>>>>),
                          [_sim_states EXCEPT ![gid] = fl]>>}
                  ELSE {})
    ELSE IF cmd = CMD_SET_MODE THEN {<<(<<CMD_SET_MODE, gid, <<65, 67, 75>>>>), _sim_states>>}
    ELSE {<<None, _sim_states>>}

\* entry of _exchange(cmd, gid, b"", timeout): the simulated branch returns at
\* once, the physical branch writes the frame and enters the receive loop
ExchangeCall(cmd, gid, timeout) ==
    /\ x_cmd' = cmd
    /\ x_gid' = gid
    /\ x_timeout' = timeout
    /\ x_buf' = <<>>
    /\ x_read' = FALSE
    /\ IF simulate
       THEN /\ \E r \in SimReplies(cmd, gid) :
                 /\ x_ret' = r[1]
                 /\ _sim_states' = r[2]
            /\ r_pc' = "ret"
            /\ x_fault' = "none"
            /\ UNCHANGED <<last_tx, txStat, n_faults, x_raised>>
       ELSE /\ last_tx' = _mk_frame(cmd, gid, <<>>)
            /\ \E outcome \in UartOutcomes :
                 LET w == _write(last_tx', outcome)
                 IN  /\ w_ret' = w.ret
                     /\ tx_count' = w.tx_count
                     /\ tx_errors' = w.tx_errors
                     /\ x_raised' = (x_raised \/ w.raised)
                     /\ x_fault' = IF outcome = "raise" THEN "write" ELSE "none"
                     /\ n_faults' = IF outcome = "raise" THEN n_faults + 1 ELSE n_faults
            /\ x_ret' = None
            /\ r_pc' = "rx"
            /\ UNCHANGED _sim_states

\* calls of _exchange that do not come from _exchange_with_retry: the
\* harness's own, and those of ping and of a built radio's caller
DirectOps == {"exchange", "direct"}

\* the retry loop without its `if result: return result`
AfterResult_ignored(op, result, a, cfg) ==
    IF op \in DirectOps THEN "ret"
    ELSE IF a + 1 < cfg.MAX_RETRIES THEN "attempt" ELSE "ret"

\* where control goes when _exchange has returned result in attempt a: a
\* direct caller has its result; under _exchange_with_retry a reply is
\* returned at once (lines 266-267), and None leads to the next attempt or,
\* after the last one, to the final return (line 278)
AfterResult(op, result, a, cfg) ==
    IF op \in DirectOps \/ result # None THEN "ret"
    ELSE IF a + 1 < cfg.MAX_RETRIES THEN "attempt" ELSE "ret"

\* one pass of the while loop of lines 302-313 while the timeout has not
\* elapsed: _read_all drains the UART, the buffer grows, a frame is looked for
RxIter ==
    /\ r_pc = "rx"
    /\ x_read' = TRUE
    /\ \E outcome \in UartOutcomes :
         LET chunk == _read_all(uart_rx, outcome)
         IN  /\ uart_rx' = chunk.left
             /\ rx_count' = chunk.rx_count
             /\ rx_errors' = chunk.rx_errors
             /\ x_raised' = (x_raised \/ chunk.raised)
             /\ x_fault' = IF outcome = "raise" THEN "read" ELSE "none"
             /\ n_faults' = IF outcome = "raise" THEN n_faults + 1 ELSE n_faults
             /\ x_buf' = x_buf \o chunk.data
             /\ LET parsed == IF chunk.data # <<>> THEN ExtractFrame(x_buf') ELSE None
                IN  IF parsed # None
                    THEN /\ x_ret' = parsed
                         /\ r_pc' = AfterResult(a_op, parsed, attempt, RETRY_CFG)
                    ELSE UNCHANGED <<x_ret, r_pc>>
    /\ UNCHANGED <<RETRY_CFG, simulate, _tick, _sim_states, states, a_op, p_idx,
                   out, last_out, req_id, req_ret, attempt, x_cmd, x_gid,
                   x_timeout, t_hist, b_hist, air, n_tx, last_tx,
                   statCfg, txStat, timeouts>>

\* RadioStats.update_timeout with its increment left out
update_timeout_skipped(n) == n

\* RadioStats.update_timeout (lines 147-148)
update_timeout(n) == n + 1

\* the loop condition of line 302 fails: with statistics on the timeout is
\* counted (lines 315-316) and _exchange returns None (line 317);
\* under _exchange_with_retry the failed attempt is followed by the backoff of
\* lines 272-274 and the next attempt, or by the final return None (line 278)
RxTimeout ==
    /\ r_pc = "rx"
    /\ x_read
    /\ x_ret' = None
    /\ r_pc' = AfterResult(a_op, None, attempt, RETRY_CFG)
    /\ IF a_op \in DirectOps
       THEN UNCHANGED <<attempt, b_hist>>
       ELSE /\ b_hist' = b_hist \o BackoffWaits(RETRY_CFG, attempt)
            /\ attempt' = attempt + 1
    /\ timeouts' = IF stats THEN update_timeout(timeouts) ELSE timeouts
    /\ UNCHANGED <<RETRY_CFG, simulate, _tick, _sim_states, states, a_op, p_idx,
                   out, last_out, req_id, req_ret, x_cmd, x_gid, x_timeout,
                   x_buf, x_read, t_hist, uart_rx, air, n_tx, last_tx,
                   statCfg, txStat, rxStat, faultRec>>

----------------------------------------------------------------------------
(* Radio._exchange_with_retry, lines 259-278 *)

\* entry of _exchange_with_retry(cmd, gid): the loop variable and the records
\* of this call start afresh, the first attempt is due
RetryCall(cmd, gid) ==
    /\ attempt' = 0
    /\ t_hist' = <<>>
    /\ b_hist' = <<>>
    /\ x_cmd' = cmd
    /\ x_gid' = gid
    /\ r_pc' = "attempt"

\* lines 261-265: the attempt's timeout, then the call of _exchange
StartAttempt ==
    /\ r_pc = "attempt"
    /\ attempt < RETRY_CFG.MAX_RETRIES
    /\ LET timeout == AttemptTimeout(RETRY_CFG, attempt)
       IN  /\ t_hist' = Append(t_hist, timeout)
           /\ ExchangeCall(x_cmd, x_gid, timeout)
    /\ UNCHANGED <<RETRY_CFG, simulate, _tick, states, a_op, p_idx, out,
                   last_out, req_id, req_ret, attempt, b_hist, uart_rx, air, n_tx,
                   statCfg, rxStat, timeouts>>

----------------------------------------------------------------------------
(* Radio.poll_status (lines 319-338) under TaApp._update_states (91-98) *)

\* _update_states calls poll_status: a call on which no sweep is due returns
\* the empty list; a simulated sweep reads _sim_states; a physical sweep
\* starts the exchange with the first device
UpdateStates ==
    /\ a_op = "none"
    /\ _tick < MaxTick
    /\ _tick' = _tick + 1
    /\ IF (_tick' % Period) # 0
       THEN /\ last_out' = <<>>
            /\ states' = ApplyStatuses(states, <<>>)
            /\ UNCHANGED <<a_op, p_idx, out, attempt, r_pc, x_cmd, x_gid,
                           t_hist, b_hist>>
       ELSE IF simulate
       THEN /\ last_out' = [i \in 1..Len(GROUP_IDS) |->
                              DDStatus(GROUP_IDS[i], _sim_states[GROUP_IDS[i]])]
            /\ states' = ApplyStatuses(states, last_out')
            /\ UNCHANGED <<a_op, p_idx, out, attempt, r_pc, x_cmd, x_gid,
                           t_hist, b_hist>>
       ELSE /\ a_op' = "poll"
            /\ p_idx' = 1
            /\ out' = <<>>
            /\ RetryCall(CMD_GET_STS, GROUP_IDS[1])
            /\ UNCHANGED <<last_out, states>>
    /\ UNCHANGED <<RETRY_CFG, simulate, _sim_states, req_id, req_ret, x_timeout,
                   x_buf, x_read, x_ret, uart_rx, air, n_tx, last_tx,
                   statVars>>

\* _exchange_with_retry has returned to poll_status: lines 331-337 for this
\* device, then the next device, or the return to _update_states, which
\* stores every returned status
PollCollect ==
    /\ a_op = "poll"
    /\ r_pc = "ret"
    /\ LET out2 == Append(out, DDStatus(GROUP_IDS[p_idx], StatusOf(x_ret)))
       IN  IF p_idx < Len(GROUP_IDS)
           THEN /\ out' = out2
                /\ p_idx' = p_idx + 1
                /\ RetryCall(CMD_GET_STS, GROUP_IDS[p_idx + 1])
                /\ UNCHANGED <<last_out, states, a_op>>
           ELSE /\ last_out' = out2
                /\ states' = ApplyStatuses(states, out2)
                /\ a_op' = "none"
                /\ p_idx' = 0
                /\ out' = <<>>
                /\ r_pc' = "idle"
                /\ UNCHANGED <<attempt, t_hist, b_hist, x_cmd, x_gid>>
    /\ UNCHANGED <<RETRY_CFG, simulate, _tick, _sim_states, req_id, req_ret,
                   x_timeout, x_buf, x_read, x_ret, uart_rx, air, n_tx, last_tx,
                   statVars>>

----------------------------------------------------------------------------
(* Radio.request_status, lines 340-346 *)

\* ids request_status is called with: the configured ones and a foreign one
RequestIds == GroupIdSet \cup {9}

RequestStatus ==
    /\ a_op = "none"
    /\ \E dd \in RequestIds :
         /\ req_id' = dd
         /\ IF dd \notin GroupIdSet
            THEN /\ req_ret' = STATE_UNKNOWN
                 /\ UNCHANGED <<a_op, attempt, t_hist, b_hist, x_cmd, x_gid, r_pc>>
            ELSE /\ a_op' = "request"
                 /\ RetryCall(CMD_GET_STS, dd)
                 /\ UNCHANGED req_ret
    /\ UNCHANGED <<RETRY_CFG, simulate, _tick, _sim_states, states, p_idx, out,
                   last_out, x_timeout, x_buf, x_read, x_ret, uart_rx, air,
                   n_tx, last_tx,
                   statVars>>

RequestReturn ==
    /\ a_op = "request"
    /\ r_pc = "ret"
    /\ req_ret' = StatusOf(x_ret)
    /\ a_op' = "none"
    /\ r_pc' = "idle"
    /\ UNCHANGED <<RETRY_CFG, simulate, _tick, _sim_states, states, p_idx, out,
                   last_out, req_id, attempt, x_cmd, x_gid, x_timeout, x_buf,
                   x_read, x_ret, t_hist, b_hist, uart_rx, air, n_tx, last_tx,
                   statVars>>

----------------------------------------------------------------------------
(* Harness calls *)

\* the harness calls _exchange_with_retry(CMD_GET_STS, 1)
CallRetry ==
    /\ a_op = "retry"
    /\ r_pc = "call"
    /\ RetryCall(CMD_GET_STS, 1)
    /\ UNCHANGED <<RETRY_CFG, simulate, _tick, _sim_states, states, a_op, p_idx,
                   out, last_out, req_id, req_ret, x_timeout, x_buf, x_read,
                   x_ret, uart_rx, air, n_tx, last_tx,
                   statVars>>

\* the harness calls _exchange(CMD_GET_STS, 1) with the default timeout
CallExchange ==
    /\ a_op = "exchange"
    /\ r_pc = "call"
    /\ ExchangeCall(CMD_GET_STS, 1, REPLY_TIMEOUT_MS)
    /\ UNCHANGED <<RETRY_CFG, simulate, _tick, states, a_op, p_idx, out,
                   last_out, req_id, req_ret, attempt, t_hist, b_hist,
                   uart_rx, air, n_tx, statCfg, rxStat, timeouts>>

----------------------------------------------------------------------------
(* The link *)

\* a sender answers while the terminal listens
Transmit ==
    /\ ~simulate
    /\ r_pc = "rx"
    /\ air = <<>>
    /\ uart_rx = <<>>
    /\ n_tx < MaxTransmits
    /\ air' \in Scripts
    /\ n_tx' = n_tx + 1
    /\ UNCHANGED <<RETRY_CFG, simulate, _tick, _sim_states, states, a_op, p_idx,
                   out, last_out, req_id, req_ret, attempt, r_pc, x_cmd, x_gid,
                   x_timeout, x_buf, x_read, x_ret, t_hist, b_hist, uart_rx,
                   last_tx,
                   statVars>>

\* the next bytes on the air reach the UART, whatever the terminal is doing
Arrive ==
    /\ air # <<>>
    /\ \E k \in ChunkSizes :
         /\ uart_rx' = uart_rx \o SubSeq(air, 1, k)
         /\ air' = SubSeq(air, k + 1, Len(air))
    /\ UNCHANGED <<RETRY_CFG, simulate, _tick, _sim_states, states, a_op, p_idx,
                   out, last_out, req_id, req_ret, attempt, r_pc, x_cmd, x_gid,
                   x_timeout, x_buf, x_read, x_ret, t_hist, b_hist, n_tx,
                   last_tx,
                   statVars>>

----------------------------------------------------------------------------
(* Text: Python str as a sequence of one-character strings *)

NL == "\n"

\* a byte that bytes.decode() refuses
BadByte == "\\xff"

\* the two bytes of a character that UTF-8 encodes on two bytes, and that
\* character
ByteC3 == "\\xc3"
ByteA9 == "\\xa9"
WideChar == "U+00E9"

\* bytes.decode() accepts the bytes: no refused byte, every lead byte
\* followed by its continuation byte, no continuation byte on its own
RECURSIVE Utf8Valid(_)
Utf8Valid(b) ==
    IF b = <<>> THEN TRUE
    ELSE IF Head(b) = ByteC3
    THEN Len(b) >= 2 /\ b[2] = ByteA9 /\ Utf8Valid(SubSeq(b, 3, Len(b)))
    ELSE IF Head(b) \in {ByteA9, BadByte} THEN FALSE
    ELSE Utf8Valid(Tail(b))

\* bytes.decode() of bytes it accepts: one character per ASCII byte, one per
\* two-byte sequence
RECURSIVE Utf8Decode(_)
Utf8Decode(b) ==
    IF b = <<>> THEN <<>>
    ELSE IF Head(b) = ByteC3 THEN <<WideChar>> \o Utf8Decode(SubSeq(b, 3, Len(b)))
    ELSE <<Head(b)>> \o Utf8Decode(Tail(b))

\* str.encode()
RECURSIVE Utf8Encode(_)
Utf8Encode(s) ==
    IF s = <<>> THEN <<>>
    ELSE IF Head(s) = WideChar THEN <<ByteC3, ByteA9>> \o Utf8Encode(Tail(s))
    ELSE <<Head(s)>> \o Utf8Encode(Tail(s))

Whitespace == {" ", NL, "\r", "\t"}

Lowercase == <<"a", "b", "c", "d", "e", "f", "g", "h", "i", "j", "k", "l", "m",
               "n", "o", "p", "q", "r", "s", "t", "u", "v", "w", "x", "y", "z">>
Uppercase == <<"A", "B", "C", "D", "E", "F", "G", "H", "I", "J", "K", "L", "M",
               "N", "O", "P", "Q", "R", "S", "T", "U", "V", "W", "X", "Y", "Z">>

UpperChar(c) ==
    IF \E i \in 1..Len(Lowercase) : Lowercase[i] = c
    THEN Uppercase[CHOOSE i \in 1..Len(Lowercase) : Lowercase[i] = c]
    ELSE c

\* str.upper()
Upper(s) == [i \in 1..Len(s) |-> UpperChar(s[i])]

RECURSIVE LStrip(_)
LStrip(s) == IF s # <<>> /\ Head(s) \in Whitespace THEN LStrip(Tail(s)) ELSE s

RECURSIVE RStrip(_)
RStrip(s) ==
    IF s # <<>> /\ s[Len(s)] \in Whitespace
    THEN RStrip(SubSeq(s, 1, Len(s) - 1))
    ELSE s

\* str.strip()
Strip(s) == RStrip(LStrip(s))

\* str.startswith(p)
StartsWith(s, p) == Len(s) >= Len(p) /\ SubSeq(s, 1, Len(p)) = p

\* 1-based position of the first c in s, 0 when absent
IndexOf(s, c) ==
    LET hits == {i \in 1..Len(s) : s[i] = c}
    IN  IF hits = {} THEN 0 ELSE CHOOSE i \in hits : \A j \in hits : i <= j

\* s.split(":", 1)
SplitColon(s) ==
    LET i == IndexOf(s, ":")
    IN  IF i = 0 THEN <<s>>
        ELSE <<SubSeq(s, 1, i - 1), SubSeq(s, i + 1, Len(s))>>

T_POLL == <<"P", "O", "L", "L", ":">>
T_SETID == <<"S", "E", "T", "I", "D", ":">>
T_ACK == <<"A", "C", "K", ":">>
T_ACKSETID == <<"A", "C", "K", "S", "E", "T", "I", "D", ":">>
T_ALL == <<"A", "L", "L">>

----------------------------------------------------------------------------
(* Detector protocol: dd/main.py lines 125-161 *)

\* a parse_line that accepts identifiers of up to 9 characters
parse_line_9(line) ==
    IF ~Utf8Valid(line) THEN None
    ELSE LET s == Strip(Utf8Decode(line))
         IN  IF StartsWith(s, T_POLL) /\ Len(SplitColon(s)) >= 2
             THEN <<"POLL", Strip(SplitColon(s)[2])>>
             ELSE IF StartsWith(s, T_SETID) /\ Len(SplitColon(s)) = 2
                     /\ Len(Strip(SplitColon(s)[2])) >= 1
                     /\ Len(Strip(SplitColon(s)[2])) <= 9
             THEN <<"SETID", Strip(SplitColon(s)[2])>>
             ELSE None

\* parse_line: None, or <<verb, argument>>
parse_line(line) ==
    IF ~Utf8Valid(line) THEN None
    ELSE LET s == Strip(Utf8Decode(line))
         IN  IF StartsWith(s, T_POLL) /\ Len(SplitColon(s)) >= 2
             THEN <<"POLL", Strip(SplitColon(s)[2])>>
             ELSE IF StartsWith(s, T_SETID) /\ Len(SplitColon(s)) = 2
                     /\ Len(Strip(SplitColon(s)[2])) >= 1
                     /\ Len(Strip(SplitColon(s)[2])) <= 8
             THEN <<"SETID", Strip(SplitColon(s)[2])>>
             ELSE None

\* measure_state, line 145
measure_state == 1

\* the string send_ack writes: "ACK:{}:{}\n"
AckText(det_id, state) ==
    T_ACK \o det_id \o <<":">> \o <<IF state # 0 THEN "1" ELSE "0">> \o <<NL>>

\* the string send_ack_id_change writes: "ACKSETID:{}:{}\n"
AckSetIdText(ok, new_id) ==
    T_ACKSETID \o new_id \o <<":">>
        \o (IF ok THEN <<"O", "K">> ELSE <<"E", "R", "R">>) \o <<NL>>

----------------------------------------------------------------------------
(* Detectors on one shared link *)

Detectors == {1, 2}

\* lines a sender puts on the link in one run
MaxLines == 2

Id01 == <<"0", "1">>
Id02 == <<"0", "2">>
Id07 == <<"0", "7">>

\* identifiers a detector can come out of boot with
BootIds == {Id01, Id02}

Line(verb, arg) == verb \o arg \o <<NL>>

Id8 == <<"1", "2", "3", "4", "5", "6", "7", "8">>
Id9 == <<"1", "2", "3", "4", "5", "6", "7", "8", "9">>

\* what follows the colon in the POLL and SETID lines a sender puts on the link
PollArgs ==
    {Id01, Id02, Id07, T_ALL, <<"a", "l", "l">>, <<"a", "L", "l">>,
     <<" ", "0", "2", " ">>, <<>>}

SetIdArgs == {Id07, <<>>, Id8, Id9}

DDLines ==
    {Line(T_POLL, a) : a \in PollArgs}
    \cup {Line(T_SETID, a) : a \in SetIdArgs}
    \cup {<<"P", "I", "N", "G", NL>>,
          <<"P", "O", "L", "L", ":", BadByte, NL>>, <<NL>>}

\* the pieces a line of n bytes travels in: whole, or cut in two after its
\* first byte, in its middle, or just before its terminator; a lone detector
\* sees every such cut, a pair hears whole lines
Cuts(n) ==
    IF Cardinality(population) = 1
    THEN {0, 1, n \div 2, n - 1} \cap (0..(n - 1))
    ELSE {0}

Pieces(l, k) ==
    IF k = 0 THEN <<l>> ELSE <<SubSeq(l, 1, k), SubSeq(l, k + 1, Len(l))>>

NoDispatch == [cmd |-> "NONE", arg |-> <<>>, ok |-> FALSE]

DDFresh ==
    /\ dd_buf = [d \in Detectors |-> <<>>]
    /\ d_pc = [d \in Detectors |-> "top"]
    /\ ok_count = [d \in Detectors |-> 0]
    /\ nok_count = [d \in Detectors |-> 0]
    /\ setid_ok_count = [d \in Detectors |-> 0]
    /\ setid_err_count = [d \in Detectors |-> 0]
    /\ nvs = [d \in Detectors |-> None]
    /\ last_disp = [d \in Detectors |-> NoDispatch]
    /\ dd_rx = [d \in Detectors |-> <<>>]
    /\ dd_air = [d \in Detectors |-> <<>>]
    /\ dd_tx = [d \in Detectors |-> <<>>]
    /\ n_lines = 0

\* one detector, booted, about to enter its main loop
DDInit ==
    /\ DDFresh
    /\ population = {1}
    /\ \E id \in BootIds : DETECTOR_ID = [d \in Detectors |-> id]

\* two detectors with distinct identifiers on the same link
DDPairInit ==
    /\ DDFresh
    /\ population = {1, 2}
    /\ DETECTOR_ID = [d \in Detectors |-> IF d = 1 THEN Id01 ELSE Id02]

DDIdle ==
    /\ DDFresh
    /\ population = {}
    /\ DETECTOR_ID = [d \in Detectors |-> Id01]

----------------------------------------------------------------------------
(* Detector main loop: dd/main.py lines 175-244 *)

HasLine(b) == IndexOf(b, NL) # 0

\* a POLL branch that compares the broadcast token as written
PollBranch_cased(d, det_id) ==
    IF det_id = DETECTOR_ID[d] \/ det_id = T_ALL
    THEN /\ dd_tx' = [dd_tx EXCEPT
                        ![d] = Append(@, AckText(DETECTOR_ID[d], measure_state))]
         /\ ok_count' = [ok_count EXCEPT ![d] = @ + 1]
         /\ UNCHANGED nok_count
    ELSE /\ nok_count' = [nok_count EXCEPT ![d] = @ + 1]
         /\ UNCHANGED <<dd_tx, ok_count>>

\* lines 201-214
PollBranch(d, det_id) ==
    IF det_id = DETECTOR_ID[d] \/ Upper(det_id) = T_ALL
    THEN /\ dd_tx' = [dd_tx EXCEPT
                        ![d] = Append(@, AckText(DETECTOR_ID[d], measure_state))]
         /\ ok_count' = [ok_count EXCEPT ![d] = @ + 1]
         /\ UNCHANGED nok_count
    ELSE /\ nok_count' = [nok_count EXCEPT ![d] = @ + 1]
         /\ UNCHANGED <<dd_tx, ok_count>>

\* a SETID branch that swaps the identifier before knowing whether it persisted
SetIdBranch_eager(d, new_id, ok) ==
    /\ DETECTOR_ID' = [DETECTOR_ID EXCEPT ![d] = new_id]
    /\ IF ok
       THEN /\ nvs' = [nvs EXCEPT ![d] = Utf8Encode(new_id)]
            /\ setid_ok_count' = [setid_ok_count EXCEPT ![d] = @ + 1]
            /\ UNCHANGED setid_err_count
       ELSE /\ setid_err_count' = [setid_err_count EXCEPT ![d] = @ + 1]
            /\ UNCHANGED <<nvs, setid_ok_count>>
    /\ dd_tx' = [dd_tx EXCEPT ![d] = Append(@, AckSetIdText(ok, new_id))]

\* lines 216-230, ok being what _persist_id_to_nvs (lines 63-72) returned
SetIdBranch(d, new_id, ok) ==
    /\ IF ok
       THEN /\ nvs' = [nvs EXCEPT ![d] = Utf8Encode(new_id)]
            /\ DETECTOR_ID' = [DETECTOR_ID EXCEPT ![d] = new_id]
            /\ setid_ok_count' = [setid_ok_count EXCEPT ![d] = @ + 1]
            /\ UNCHANGED setid_err_count
       ELSE /\ setid_err_count' = [setid_err_count EXCEPT ![d] = @ + 1]
            /\ UNCHANGED <<nvs, DETECTOR_ID, setid_ok_count>>
    /\ dd_tx' = [dd_tx EXCEPT ![d] = Append(@, AckSetIdText(ok, new_id))]

\* lines 176-184: a new iteration reads whatever the UART holds into dd_buf and
\* enters the line loop when a complete line is there; otherwise the iteration
\* ends at the sleep of line 244
LoopTop(d) ==
    /\ d \in population
    /\ d_pc[d] = "top"
    /\ dd_rx' = [dd_rx EXCEPT ![d] = <<>>]
    /\ dd_buf' = [dd_buf EXCEPT ![d] = @ \o dd_rx[d]]
    /\ d_pc' = [d_pc EXCEPT
                  ![d] = IF dd_rx[d] # <<>> /\ HasLine(dd_buf'[d]) THEN "lines" ELSE "top"]
    /\ UNCHANGED <<population, DETECTOR_ID, ok_count, nok_count, setid_ok_count,
                   setid_err_count, nvs, last_disp, dd_air, dd_tx, n_lines>>

\* lines 187-230: the next complete line is cut off dd_buf, parsed and dispatched
DispatchLine(d) ==
    /\ d \in population
    /\ d_pc[d] = "lines"
    /\ LET nl     == IndexOf(dd_buf[d], NL)
           line   == SubSeq(dd_buf[d], 1, nl)
           rest   == SubSeq(dd_buf[d], nl + 1, Len(dd_buf[d]))
           parsed == parse_line(line)
       IN  /\ dd_buf' = [dd_buf EXCEPT ![d] = rest]
           /\ d_pc' = [d_pc EXCEPT ![d] = IF HasLine(rest) THEN "lines" ELSE "top"]
           /\ IF parsed = None
              THEN /\ last_disp' = [last_disp EXCEPT ![d] = NoDispatch]
                   /\ UNCHANGED <<DETECTOR_ID, ok_count, nok_count, setid_ok_count,
                                  setid_err_count, nvs, dd_tx>>
              ELSE IF parsed[1] = "POLL"
              THEN /\ PollBranch(d, parsed[2])
                   /\ last_disp' = [last_disp EXCEPT
                                      ![d] = [cmd |-> "POLL", arg |-> parsed[2],
                                              ok |-> FALSE]]
                   /\ UNCHANGED <<DETECTOR_ID, setid_ok_count, setid_err_count, nvs>>
              ELSE /\ \E ok \in BOOLEAN :
                        /\ SetIdBranch(d, parsed[2], ok)
                        /\ last_disp' = [last_disp EXCEPT
                                           ![d] = [cmd |-> "SETID", arg |-> parsed[2],
                                                   ok |-> ok]]
                   /\ UNCHANGED <<ok_count, nok_count>>
    /\ UNCHANGED <<population, dd_rx, dd_air, n_lines>>

\* a sender puts one line on the link; every detector that is on hears it
SendLine ==
    /\ population # {}
    /\ n_lines < MaxLines
    /\ \A d \in population : dd_air[d] = <<>>
    /\ \E l \in DDLines : \E k \in Cuts(Len(l)) :
         dd_air' = [d \in Detectors |->
                      IF d \in population THEN Pieces(l, k) ELSE <<>>]
    /\ n_lines' = n_lines + 1
    /\ UNCHANGED <<population, DETECTOR_ID, dd_buf, d_pc, ok_count, nok_count,
                   setid_ok_count, setid_err_count, nvs, last_disp, dd_rx, dd_tx>>

\* the next piece of the line reaches a detector's UART
DDArrive(d) ==
    /\ d \in population
    /\ dd_air[d] # <<>>
    /\ dd_rx' = [dd_rx EXCEPT ![d] = @ \o Head(dd_air[d])]
    /\ dd_air' = [dd_air EXCEPT ![d] = Tail(@)]
    /\ UNCHANGED <<population, DETECTOR_ID, dd_buf, d_pc, ok_count, nok_count,
                   setid_ok_count, setid_err_count, nvs, last_disp, dd_tx, n_lines>>

----------------------------------------------------------------------------
(* Detector watchdog: dd/main.py lines 14, 97-122 and the stamp of line 176 *)

WATCHDOG_MS == 30000

\* line 122: period=max(100, WATCHDOG_MS // 2)
WdtPeriod == Max(100, WATCHDOG_MS \div 2)

\* lines 101-106: the time _blink_led spends in its sleeps
_blink_led(times, on_ms, off_ms) == times * (on_ms + off_ms)

\* time.ticks_diff, with both stamps far from the wrap of the tick counter
ticks_diff(a, b) == a - b

\* a guard that lets every invocation through
GuardReturns_never(flag) == FALSE

\* line 111: if _wdt_triggered: return
GuardReturns(flag) == flag

\* a comparison that waits for twice the timeout
Expired_twice(diff) == diff > 2 * WATCHDOG_MS

\* line 113: ticks_diff(...) > WATCHDOG_MS
Expired(diff) == diff > WATCHDOG_MS

\* the main loop may run up to this time before it stalls
MaxRun == 2000

\* firings that may interrupt a wdt_cb that is still running
MaxReenter == 2

\* how long one iteration of the main loop takes: the sleep of line 244 alone,
\* with the LED feedback of a POLL (line 208), or with that of a SETID (line 224)
IterationMs == {10, 10 + 40, 10 + 100}

\* how long line 116 takes: the whole blink, or nothing when led.value raises
BlinkOutcomes == {_blink_led(4, 80, 80), 0}

Top(st) == st[Len(st)]
Pop(st) == SubSeq(st, 1, Len(st) - 1)
SetTop(st, pc) == [st EXCEPT ![Len(st)] = pc]

\* lines 97-99 and 121-122: stamp, flag and timer as the boot code leaves them
WdtInit ==
    /\ now = 0
    /\ last_loop_ts = 0
    /\ _wdt_triggered = FALSE
    /\ loop_state = "run"
    /\ next_stamp = 0
    /\ next_fire = WdtPeriod
    /\ wdt_stack = <<>>
    /\ n_enter = 0
    /\ n_guard = 0
    /\ n_reenter = 0
    /\ was_reset = FALSE
    /\ reset_at = 0

WdtIdle ==
    /\ now = 0
    /\ last_loop_ts = 0
    /\ _wdt_triggered = FALSE
    /\ loop_state = "off"
    /\ next_stamp = 0
    /\ next_fire = 0
    /\ wdt_stack = <<>>
    /\ n_enter = 0
    /\ n_guard = 0
    /\ n_reenter = 0
    /\ was_reset = FALSE
    /\ reset_at = 0

\* lines 175-244: one iteration of the main loop begins with the stamp of
\* line 176; the iteration then lasts one of IterationMs
LoopStamp ==
    /\ loop_state = "run"
    /\ ~was_reset
    /\ wdt_stack = <<>>
    /\ now = next_stamp
    /\ now < MaxRun
    /\ last_loop_ts' = now
    /\ \E dur \in IterationMs : next_stamp' = now + dur
    /\ UNCHANGED <<now, _wdt_triggered, loop_state, next_fire, wdt_stack, n_enter,
                   n_guard, n_reenter, was_reset, reset_at>>

\* the main loop stops reaching line 176
LoopStall ==
    /\ loop_state = "run"
    /\ ~was_reset
    /\ loop_state' = "stalled"
    /\ UNCHANGED <<now, last_loop_ts, _wdt_triggered, next_stamp, next_fire,
                   wdt_stack, n_enter, n_guard, n_reenter, was_reset, reset_at>>

\* time passes until the next thing happens: the timer fires or the running
\* iteration ends
NextEvent == IF loop_state = "run" /\ next_stamp < next_fire THEN next_stamp ELSE next_fire

TimePasses ==
    /\ loop_state \in {"run", "stalled"}
    /\ ~was_reset
    /\ wdt_stack = <<>>
    /\ now < NextEvent
    /\ now' = NextEvent
    /\ UNCHANGED <<last_loop_ts, _wdt_triggered, loop_state, next_stamp, next_fire,
                   wdt_stack, n_enter, n_guard, n_reenter, was_reset, reset_at>>

\* line 122: the periodic timer calls wdt_cb
TimerFires ==
    /\ loop_state \in {"run", "stalled"}
    /\ ~was_reset
    /\ wdt_stack = <<>>
    /\ now = next_fire
    /\ wdt_stack' = <<"guard">>
    /\ next_fire' = next_fire + WdtPeriod
    /\ UNCHANGED <<now, last_loop_ts, _wdt_triggered, loop_state, next_stamp,
                   n_enter, n_guard, n_reenter, was_reset, reset_at>>

\* a further firing interrupts a wdt_cb that has not returned yet
TimerReenters ==
    /\ ~was_reset
    /\ wdt_stack # <<>>
    /\ n_reenter < MaxReenter
    /\ wdt_stack' = Append(wdt_stack, "guard")
    /\ n_reenter' = n_reenter + 1
    /\ UNCHANGED <<now, last_loop_ts, _wdt_triggered, loop_state, next_stamp,
                   next_fire, n_enter, n_guard, was_reset, reset_at>>

\* lines 111-112: the innermost wdt_cb looks at the guard
CbGuard ==
    /\ ~was_reset
    /\ wdt_stack # <<>>
    /\ Top(wdt_stack) = "guard"
    /\ IF GuardReturns(_wdt_triggered)
       THEN /\ wdt_stack' = Pop(wdt_stack)
            /\ n_guard' = n_guard + 1
       ELSE /\ wdt_stack' = SetTop(wdt_stack, "check")
            /\ UNCHANGED n_guard
    /\ UNCHANGED <<now, last_loop_ts, _wdt_triggered, loop_state, next_stamp,
                   next_fire, n_enter, n_reenter, was_reset, reset_at>>

\* line 113: it compares the age of the stamp with the timeout
CbCheck ==
    /\ ~was_reset
    /\ wdt_stack # <<>>
    /\ Top(wdt_stack) = "check"
    /\ wdt_stack' = IF Expired(ticks_diff(now, last_loop_ts))
                    THEN SetTop(wdt_stack, "set")
                    ELSE Pop(wdt_stack)
    /\ UNCHANGED <<now, last_loop_ts, _wdt_triggered, loop_state, next_stamp,
                   next_fire, n_enter, n_guard, n_reenter, was_reset, reset_at>>

\* line 114: it sets the flag
CbSet ==
    /\ ~was_reset
    /\ wdt_stack # <<>>
    /\ Top(wdt_stack) = "set"
    /\ _wdt_triggered' = TRUE
    /\ n_enter' = n_enter + 1
    /\ wdt_stack' = SetTop(wdt_stack, "blink")
    /\ UNCHANGED <<now, last_loop_ts, loop_state, next_stamp, next_fire, n_guard,
                   n_reenter, was_reset, reset_at>>

\* lines 115-118: it blinks the LED, sleeping while it does
CbBlink ==
    /\ ~was_reset
    /\ wdt_stack # <<>>
    /\ Top(wdt_stack) = "blink"
    /\ \E ms \in BlinkOutcomes : now' = now + ms
    /\ wdt_stack' = SetTop(wdt_stack, "reset")
    /\ UNCHANGED <<last_loop_ts, _wdt_triggered, loop_state, next_stamp, next_fire,
                   n_enter, n_guard, n_reenter, was_reset, reset_at>>

\* line 119: reset(), after which nothing of this program runs
CbReset ==
    /\ ~was_reset
    /\ wdt_stack # <<>>
    /\ Top(wdt_stack) = "reset"
    /\ was_reset' = TRUE
    /\ reset_at' = now
    /\ UNCHANGED <<now, last_loop_ts, _wdt_triggered, loop_state, next_stamp,
                   next_fire, wdt_stack, n_enter, n_guard, n_reenter>>

----------------------------------------------------------------------------
(* Frames damaged between _mk_frame and _parse_frame *)

\* byte b with bit k (0 = least significant) inverted
FlipBit(b, k) ==
    LET w == Pow(2, k)
    IN  IF (b \div w) % 2 = 1 THEN b - w ELSE b + w

\* commands, target ids and payloads of the frames that get damaged
WireCmds == {CMD_PING, CMD_GET_STS, 255}
WireGids == {0, 1, START_BYTE}
WirePayloads ==
    {<<>>, <<STATE_PRESENT>>, <<END_BYTE>>, <<0, 255>>,
     <<START_BYTE, 2, END_BYTE>>, Fill(0, MAX_LEN - 7)}

\* what can happen to a frame of n bytes: nothing; one bit of one byte
\* inverted; the same bit inverted in one byte and in the checksum byte;
\* only the first bytes arriving; one more byte arriving behind it
Damages(n) ==
    {[kind |-> "none", pos |-> 0, bit |-> 0]}
    \cup {[kind |-> "flip", pos |-> i, bit |-> k] : i \in 1..n, k \in 0..7}
    \cup {[kind |-> "flip2", pos |-> i, bit |-> k] : i \in 1..(n - 2), k \in 0..7}
    \cup {[kind |-> "cut", pos |-> i, bit |-> 0] : i \in 0..(n - 1)}
    \cup {[kind |-> "pad", pos |-> n + 1, bit |-> 0]}

FlipAt(f, i, k) == [f EXCEPT ![i] = FlipBit(@, k)]

Damaged(f, dmg) ==
    IF dmg.kind = "flip" THEN FlipAt(f, dmg.pos, dmg.bit)
    ELSE IF dmg.kind = "flip2" THEN FlipAt(FlipAt(f, dmg.pos, dmg.bit), Len(f) - 1, dmg.bit)
    ELSE IF dmg.kind = "cut" THEN SubSeq(f, 1, dmg.pos)
    ELSE IF dmg.kind = "pad" THEN Append(f, END_BYTE)
    ELSE f

NoDamage == [kind |-> "none", pos |-> 0, bit |-> 0]

WireInit ==
    /\ w_pc = "input"
    /\ w_cmd \in WireCmds
    /\ w_gid \in WireGids
    /\ w_payload \in WirePayloads
    /\ w_sent = <<>>
    /\ w_damage = NoDamage
    /\ w_buf = <<>>
    /\ w_parsed = None

WireIdle ==
    /\ w_pc = "off"
    /\ w_cmd = 0
    /\ w_gid = 0
    /\ w_payload = <<>>
    /\ w_sent = <<>>
    /\ w_damage = NoDamage
    /\ w_buf = <<>>
    /\ w_parsed = None

\* _mk_frame builds the frame
WireSend ==
    /\ w_pc = "input"
    /\ w_sent' = _mk_frame(w_cmd, w_gid, w_payload)
    /\ w_pc' = "sent"
    /\ UNCHANGED <<w_cmd, w_gid, w_payload, w_damage, w_buf, w_parsed>>

\* the bytes arrive, damaged or not
WireDamage ==
    /\ w_pc = "sent"
    /\ \E dmg \in Damages(Len(w_sent)) :
         /\ w_damage' = dmg
         /\ w_buf' = Damaged(w_sent, dmg)
    /\ w_pc' = "received"
    /\ UNCHANGED <<w_cmd, w_gid, w_payload, w_sent, w_parsed>>

\* _parse_frame is called on what arrived
WireParse ==
    /\ w_pc = "received"
    /\ w_parsed' = _parse_frame(w_buf)
    /\ w_pc' = "parsed"
    /\ UNCHANGED <<w_cmd, w_gid, w_payload, w_sent, w_damage, w_buf>>

----------------------------------------------------------------------------
(* Lines handed to parse_line *)

IdAB == <<"A", "B">>

\* what a line can begin with
LineLeads == {<<>>, <<" ">>}

\* verbs with their separator: the two commands, and what is neither
LineHeads ==
    {T_POLL, T_SETID, T_ACK,
     <<"p", "o", "l", "l", ":">>, <<"s", "e", "t", "i", "d", ":">>,
     <<"P", "O", "L", "L">>, <<"S", "E", "T", "I", "D">>,
     <<"X", "P", "O", "L", "L", ":">>, <<"P", "I", "N", "G", ":">>, <<>>}

\* arguments as received, with what is left of them once trimmed
LineArgs ==
    {[raw |-> <<>>, trimmed |-> <<>>],
     [raw |-> <<" ", " ">>, trimmed |-> <<>>],
     [raw |-> IdAB, trimmed |-> IdAB],
     [raw |-> <<" ", "A", "B", "\t">>, trimmed |-> IdAB],
     [raw |-> <<"7">>, trimmed |-> <<"7">>],
     [raw |-> Id01, trimmed |-> Id01],
     [raw |-> T_ALL, trimmed |-> T_ALL],
     [raw |-> <<"A", ":", "B">>, trimmed |-> <<"A", ":", "B">>],
     [raw |-> <<"A", " ", "B">>, trimmed |-> <<"A", " ", "B">>],
     [raw |-> Id8, trimmed |-> Id8],
     [raw |-> <<" ">> \o Id8, trimmed |-> Id8],
     [raw |-> Id9, trimmed |-> Id9],
     [raw |-> <<BadByte>>, trimmed |-> <<BadByte>>],
     [raw |-> <<"0", BadByte>>, trimmed |-> <<"0", BadByte>>]}

LineEnds == {<<NL>>, <<"\r", NL>>}

\* the bytes of the line
LineBytes == pl_lead \o pl_head \o pl_arg.raw \o pl_end

PLInit ==
    /\ pl_pc = "input"
    /\ pl_lead \in LineLeads
    /\ pl_head \in LineHeads
    /\ pl_arg \in LineArgs
    /\ pl_end \in LineEnds
    /\ pl_ret = None

PLIdle ==
    /\ pl_pc = "off"
    /\ pl_lead = <<>>
    /\ pl_head = <<>>
    /\ pl_arg = [raw |-> <<>>, trimmed |-> <<>>]
    /\ pl_end = <<NL>>
    /\ pl_ret = None

\* line 194: parsed = parse_line(line)
ParseLine ==
    /\ pl_pc = "input"
    /\ pl_ret' = parse_line(LineBytes)
    /\ pl_pc' = "parsed"
    /\ UNCHANGED <<pl_lead, pl_head, pl_arg, pl_end>>

----------------------------------------------------------------------------
(* Detector identity at boot: dd/main.py lines 17-79 *)

\* lines 17-25; cfg.kind is "nomodule" when import config raises, "none" when
\* the module has no DETECTOR_ID, else "int" or "str"
_get_id_from_config(cfg) ==
    IF cfg.kind = "str" /\ 1 <= Len(cfg.val) /\ Len(cfg.val) <= 8
    THEN cfg.val
    ELSE None

\* lines 27-38; get_blob raises when there is no blob or when the blob does
\* not fit the 8-byte buffer, decode raises on a byte it cannot decode
_get_id_from_nvs(st) ==
    IF ~st.ok \/ ~st.present THEN None
    ELSE IF Len(st.blob) > 8 THEN None
    ELSE IF Len(st.blob) = 0 THEN None
    ELSE IF ~Utf8Valid(st.blob) THEN None
    ELSE Utf8Decode(st.blob)

\* lines 47-50: the 3-bit code of the three pin values
StrapCode(p) ==
    LET bit0 == IF p[1] = 0 THEN 0 ELSE 1
        bit1 == IF p[2] = 0 THEN 0 ELSE 1
        bit2 == IF p[3] = 0 THEN 0 ELSE 1
    IN  bit2 * 4 + bit1 * 2 + bit0

\* lines 52-58
StrapMapping ==
    [c \in 1..5 |-> <<"0", <<"1", "2", "3", "4", "5">>[c]>>]

\* lines 40-61
_get_id_from_straps(pins) ==
    IF ~pins.ok THEN None
    ELSE IF StrapCode(pins.val) \in DOMAIN StrapMapping
    THEN StrapMapping[StrapCode(pins.val)]
    ELSE None

\* an "or" that prefers its right operand
PyOr_right(a, b) == IF b # None THEN b ELSE a

\* Python's a or b on strings and None (None and "" are both false)
PyOr(a, b) == IF a # None THEN a ELSE b

\* lines 74-79
ResolveId(cfg, st, pins) ==
    PyOr(PyOr(PyOr(_get_id_from_config(cfg), _get_id_from_nvs(st)),
              _get_id_from_straps(pins)),
         Id01)

\* what config.DETECTOR_ID can be
BootConfigs ==
    {[kind |-> "nomodule", val |-> <<>>], [kind |-> "none", val |-> <<>>],
     [kind |-> "int", val |-> <<"7">>]}
    \cup {[kind |-> "str", val |-> v] : v \in {<<>>, <<"7">>, Id02, Id8, Id9}}

\* what the NVS namespace "dd" can hold
BootNvs ==
    {[ok |-> FALSE, present |-> TRUE, blob |-> Id07],
     [ok |-> TRUE, present |-> FALSE, blob |-> <<>>]}
    \cup {[ok |-> TRUE, present |-> TRUE, blob |-> b] :
             b \in {<<>>, Id07, Id8, Id9, <<"0", BadByte>>}}

\* what the three strap pins can read
BootPins ==
    {[ok |-> FALSE, val |-> <<1, 1, 1>>]}
    \cup {[ok |-> TRUE, val |-> <<a, b, c>>] : a \in {0, 1}, b \in {0, 1}, c \in {0, 1}}

BootInit ==
    /\ bt_pc = "boot"
    /\ bt_config \in BootConfigs
    /\ bt_nvs \in BootNvs
    /\ bt_pins \in BootPins
    /\ bt_id = None

BootIdle ==
    /\ bt_pc = "off"
    /\ bt_config = [kind |-> "none", val |-> <<>>]
    /\ bt_nvs = [ok |-> TRUE, present |-> FALSE, blob |-> <<>>]
    /\ bt_pins = [ok |-> TRUE, val |-> <<1, 1, 1>>]
    /\ bt_id = None

\* lines 74-79 run
Boot ==
    /\ bt_pc = "boot"
    /\ bt_id' = ResolveId(bt_config, bt_nvs, bt_pins)
    /\ bt_pc' = "up"
    /\ UNCHANGED <<bt_config, bt_nvs, bt_pins>>

----------------------------------------------------------------------------
(* One detector across restarts: boot (dd/main.py lines 17-79), the main loop
   (175-244), and a reset that starts main.py again. The NVS blob "id" is
   what survives a reset; config.py and the straps stay as they are. *)

\* identifiers of five and of eight two-byte characters
Wide5 == [i \in 1..5 |-> WideChar]
Wide8 == [i \in 1..8 |-> WideChar]

\* config.DETECTOR_ID in these runs
LifeConfigs ==
    {[kind |-> "none", val |-> <<>>], [kind |-> "str", val |-> Id02],
     [kind |-> "str", val |-> Id9]}

\* the blob "id" before the first boot: none, or one written earlier
LifeBlobs == {None, Id07, Id9, <<"0", BadByte>>, Utf8Encode(Wide5)}

\* the straps in these runs: all open, code 5, pins failing
LifePins ==
    {[ok |-> TRUE, val |-> <<1, 1, 1>>], [ok |-> TRUE, val |-> <<1, 0, 1>>],
     [ok |-> FALSE, val |-> <<1, 1, 1>>]}

\* lines a sender puts on the link in these runs
LifeLines ==
    {Line(T_SETID, Id07), Line(T_SETID, Id8), Line(T_SETID, Id9),
     Line(T_SETID, Utf8Encode(Wide5)), Line(T_SETID, Utf8Encode(Wide8)),
     Line(T_POLL, Id07), Line(T_POLL, T_ALL)}

\* what NVS("dd") shows _get_id_from_nvs for the blob kept in nvs
NvsView(blob) == [ok |-> TRUE, present |-> blob # None, blob |-> blob]

\* power-on: nothing runs yet
LifeInit ==
    /\ population = {}
    /\ DETECTOR_ID = [d \in Detectors |-> Id01]
    /\ dd_buf = [d \in Detectors |-> <<>>]
    /\ d_pc = [d \in Detectors |-> "top"]
    /\ ok_count = [d \in Detectors |-> 0]
    /\ nok_count = [d \in Detectors |-> 0]
    /\ setid_ok_count = [d \in Detectors |-> 0]
    /\ setid_err_count = [d \in Detectors |-> 0]
    /\ \E b \in LifeBlobs : nvs = [d \in Detectors |-> IF d = 1 THEN b ELSE None]
    /\ last_disp = [d \in Detectors |-> NoDispatch]
    /\ dd_rx = [d \in Detectors |-> <<>>]
    /\ dd_air = [d \in Detectors |-> <<>>]
    /\ dd_tx = [d \in Detectors |-> <<>>]
    /\ n_lines = 0
    /\ bt_pc = "boot"
    /\ bt_config \in LifeConfigs
    /\ bt_nvs = [ok |-> TRUE, present |-> FALSE, blob |-> <<>>]
    /\ bt_pins \in LifePins
    /\ bt_id = None

\* lines 17-79 and 163-173 run on detector 1: the identifier is resolved and
\* the loop is about to start
LifeBoot ==
    /\ bt_pc = "boot"
    /\ bt_id' = ResolveId(bt_config, NvsView(nvs[1]), bt_pins)
    /\ DETECTOR_ID' = [DETECTOR_ID EXCEPT ![1] = bt_id']
    /\ population' = {1}
    /\ bt_pc' = "up"
    /\ UNCHANGED <<bt_config, bt_nvs, bt_pins, dd_buf, d_pc, ok_count, nok_count,
                   setid_ok_count, setid_err_count, nvs, last_disp, dd_rx,
                   dd_air, dd_tx, n_lines>>

\* the detector is reset between two iterations: RAM is lost, the bytes on
\* their way are lost, the blob stays
LifeReset ==
    /\ bt_pc = "up"
    /\ d_pc[1] = "top"
    /\ population' = {}
    /\ bt_pc' = "boot"
    /\ bt_id' = None
    /\ dd_buf' = [d \in Detectors |-> <<>>]
    /\ ok_count' = [d \in Detectors |-> 0]
    /\ nok_count' = [d \in Detectors |-> 0]
    /\ setid_ok_count' = [d \in Detectors |-> 0]
    /\ setid_err_count' = [d \in Detectors |-> 0]
    /\ dd_rx' = [d \in Detectors |-> <<>>]
    /\ dd_air' = [d \in Detectors |-> <<>>]
    /\ dd_tx' = [d \in Detectors |-> <<>>]
    /\ UNCHANGED <<bt_config, bt_nvs, bt_pins, DETECTOR_ID, d_pc, nvs, last_disp,
                   n_lines>>

\* a sender puts one whole line on the link while the detector runs
LifeSend ==
    /\ population = {1}
    /\ n_lines < MaxLines
    /\ dd_air[1] = <<>>
    /\ \E l \in LifeLines : dd_air' = [dd_air EXCEPT ![1] = <<l>>]
    /\ n_lines' = n_lines + 1
    /\ UNCHANGED <<population, DETECTOR_ID, dd_buf, d_pc, ok_count, nok_count,
                   setid_ok_count, setid_err_count, nvs, last_disp, dd_rx, dd_tx,
                   bootVars>>

----------------------------------------------------------------------------
(* The control loops: TaApp.run (ta_app.py lines 134-158) with the methods it
   calls, and the detector's while True (dd/main.py lines 175-244) *)

\* iterations of each loop in one run
MaxIter == 3

\* kinds of fault: transport (write/read on the link), protocol (malformed
\* line or frame), persistence (identity blob), other (anything else raised)
CountedKinds == {"transport", "protocol", "persistence"}

LoopFresh ==
    /\ loop_count = 0
    /\ error_count = 0
    /\ testing_id = 0
    /\ tl_fault = "none"
    /\ n_feeds = 0
    /\ dl_loop_count = 0
    /\ dl_ok_count = 0
    /\ dl_setid_ok_count = 0
    /\ dl_setid_err_count = 0
    /\ dl_fault = "none"

\* both nodes about to enter their loops
LoopInit ==
    /\ LoopFresh
    /\ wdt = TRUE
    /\ tl_pc = "feed"
    /\ dl_pc = "stamp"

\* the terminal alone about to enter its loop, built with the watchdog
\* enabled or not (ta_app.py lines 36-42)
TLoopInit ==
    /\ LoopFresh
    /\ wdt \in BOOLEAN
    /\ tl_pc = "feed"
    /\ dl_pc = "off"

LoopIdle ==
    /\ LoopFresh
    /\ wdt = FALSE
    /\ tl_pc = "off"
    /\ dl_pc = "off"

\* a feed_watchdog that feeds nothing
feed_watchdog_unfed(w, n) == n

\* feed_watchdog, lines 51-57: wdt.feed() is called when there is a watchdog
feed_watchdog(w, n) == IF w THEN n + 1 ELSE n

\* how a call of poll_status or request_status can go: it returns, uart.write
\* or uart.read raised underneath it (absorbed by _write, _read_all), or
\* something else raised and left the call
RadioOutcomes ==
    {"ok", "raises"} \cup (IF "raise" \in UartOutcomes THEN {"write", "read"} ELSE {})

\* what such a call leaves in the radio
RadioCall(o) ==
    /\ IF o = "write"
       THEN LET w == _write(_mk_frame(CMD_GET_STS, 1, <<>>), "raise")
            IN  /\ tx_count' = w.tx_count
                /\ tx_errors' = w.tx_errors
                /\ w_ret' = w.ret
       ELSE UNCHANGED txStat
    /\ IF o = "read"
       THEN LET c == _read_all(<<>>, "raise")
            IN  /\ rx_count' = c.rx_count
                /\ rx_errors' = c.rx_errors
       ELSE UNCHANGED rxStat
    /\ n_faults' = IF o \in {"write", "read"} THEN n_faults + 1 ELSE n_faults
    /\ x_fault' = IF o \in {"write", "read"} THEN o ELSE "none"
    /\ UNCHANGED <<taCore, statCfg, timeouts, x_raised>>

FaultKind(o) ==
    IF o \in {"write", "read"} THEN "transport"
    ELSE IF o = "raises" THEN "other" ELSE "none"

\* TaApp.set_testing, lines 59-67: the operator starts or ends a test
SetTesting ==
    /\ tl_pc # "off"
    /\ testing_id' = IF testing_id = 0 THEN 1 ELSE 0
    /\ UNCHANGED <<wdt, n_feeds, tl_pc, loop_count, error_count, tl_fault, dl_pc, dl_loop_count,
                   dl_ok_count, dl_setid_ok_count, dl_setid_err_count, dl_fault,
                   taVars>>

\* run, lines 142-146, and feed_watchdog, lines 51-57
TLFeed ==
    /\ tl_pc = "feed"
    /\ loop_count < MaxIter
    /\ tl_pc' = "update"
    /\ tl_fault' = "none"
    /\ n_feeds' = feed_watchdog(wdt, n_feeds)
    /\ UNCHANGED <<wdt, loop_count, error_count, testing_id, dl_pc, dl_loop_count,
                   dl_ok_count, dl_setid_ok_count, dl_setid_err_count, dl_fault,
                   taVars>>

\* _update_states, lines 91-98: whatever leaves poll_status is caught, logged
\* and counted in error_count
TLUpdate ==
    /\ tl_pc = "update"
    /\ \E o \in RadioOutcomes :
         /\ RadioCall(o)
         /\ tl_fault' = FaultKind(o)
         /\ error_count' = IF o = "raises" THEN error_count + 1 ELSE error_count
    /\ tl_pc' = "refresh"
    /\ UNCHANGED <<wdt, n_feeds, loop_count, testing_id, dl_pc, dl_loop_count, dl_ok_count,
                   dl_setid_ok_count, dl_setid_err_count, dl_fault>>

\* _refresh_ui, lines 69-89: whatever the display raises is caught, logged and
\* counted in error_count
TLRefresh ==
    /\ tl_pc = "refresh"
    /\ \E o \in {"ok", "raises"} :
         /\ tl_fault' = FaultKind(o)
         /\ error_count' = IF o = "raises" THEN error_count + 1 ELSE error_count
    /\ tl_pc' = "testing"
    /\ UNCHANGED <<wdt, n_feeds, loop_count, testing_id, dl_pc, dl_loop_count, dl_ok_count,
                   dl_setid_ok_count, dl_setid_err_count, dl_fault, taVars>>

\* _handle_testing, lines 100-109, then line 152: with a test on,
\* request_status is called and whatever leaves it is caught and logged;
\* the iteration is counted and the loop is back at line 143
TLTesting ==
    /\ tl_pc = "testing"
    /\ IF testing_id # 0
       THEN \E o \in RadioOutcomes :
              /\ RadioCall(o)
              /\ tl_fault' = FaultKind(o)
       ELSE /\ tl_fault' = "none"
            /\ UNCHANGED taVars
    /\ loop_count' = loop_count + 1
    /\ tl_pc' = "feed"
    /\ UNCHANGED <<wdt, n_feeds, error_count, testing_id, dl_pc, dl_loop_count, dl_ok_count,
                   dl_setid_ok_count, dl_setid_err_count, dl_fault>>

\* what one pass of the detector's try block (lines 180-233) can meet
BodyEvents ==
    {"idle", "poll", "setid_ok", "setid_fail", "bad_line", "read_raises",
     "write_raises"}

\* the kind of fault in each
BodyFault(ev) ==
    IF ev \in {"read_raises", "write_raises"} THEN "transport"
    ELSE IF ev = "bad_line" THEN "protocol"
    ELSE IF ev = "setid_fail" THEN "persistence"
    ELSE "none"

\* lines 176-177
DLStamp ==
    /\ dl_pc = "stamp"
    /\ dl_loop_count < MaxIter
    /\ dl_loop_count' = dl_loop_count + 1
    /\ dl_pc' = "body"
    /\ dl_fault' = "none"
    /\ UNCHANGED <<wdt, n_feeds, tl_pc, loop_count, error_count, testing_id, tl_fault,
                   dl_ok_count, dl_setid_ok_count, dl_setid_err_count, taVars>>

\* lines 180-233: nothing to read; a POLL for this detector is answered; a
\* SETID is persisted, or _persist_id_to_nvs returns False (lines 63-72); a
\* line parse_line refuses is skipped (line 197); uart.any or uart.read
\* raises and the except of line 231 passes; uart.write raises under the
\* acknowledgement of a POLL and _uart_write_str (lines 147-155) passes
DLBody ==
    /\ dl_pc = "body"
    /\ \E ev \in BodyEvents :
         /\ dl_fault' = BodyFault(ev)
         /\ dl_ok_count' = IF ev \in {"poll", "write_raises"}
                           THEN dl_ok_count + 1 ELSE dl_ok_count
         /\ dl_setid_ok_count' = IF ev = "setid_ok"
                                 THEN dl_setid_ok_count + 1 ELSE dl_setid_ok_count
         /\ dl_setid_err_count' = IF ev = "setid_fail"
                                  THEN dl_setid_err_count + 1 ELSE dl_setid_err_count
    /\ dl_pc' = "sleep"
    /\ UNCHANGED <<wdt, n_feeds, tl_pc, loop_count, error_count, testing_id, tl_fault,
                   dl_loop_count, taVars>>

\* lines 235-244: the periodic print and the sleep, then line 175 again
DLSleep ==
    /\ dl_pc = "sleep"
    /\ dl_pc' = "stamp"
    /\ UNCHANGED <<wdt, n_feeds, tl_pc, loop_count, error_count, testing_id, tl_fault,
                   dl_loop_count, dl_ok_count, dl_setid_ok_count,
                   dl_setid_err_count, dl_fault, taVars>>

----------------------------------------------------------------------------
(* Radio.__init__ (ta_radio_433.py lines 176-218) with check_hardware and
   ping (lines 348-364), then calls of _exchange on the built radio *)

\* check_hardware makes up to this many pings (line 357)
PingTries == 3

\* a ping that takes any reply for a PING reply
ping_any(resp) == resp # None

\* ping, lines 349-350: the reply is a PING frame with payload b"OK"
ping(resp) == resp # None /\ resp[1] = CMD_PING /\ resp[3] = <<79, 75>>

CtorIdle ==
    /\ k_pc = "off"
    /\ SIMULATE = TRUE
    /\ uart_open = FALSE
    /\ n_pings = 0
    /\ k_raised = FALSE
    /\ k_last = None

\* the constructor has run up to line 199: simulate is as configured, there
\* is no UART yet
CtorInit ==
    /\ TAFresh
    /\ stats = FALSE
    /\ uart_faulty = FALSE
    /\ RETRY_CFG = ShippedRetry
    /\ SIMULATE \in BOOLEAN
    /\ simulate = SIMULATE
    /\ _sim_states \in [GroupIdSet -> {STATE_PRESENT, STATE_ABSENT}]
    /\ a_op = "direct"
    /\ r_pc = "idle"
    /\ k_pc = "uart"
    /\ uart_open = FALSE
    /\ n_pings = 0
    /\ k_raised = FALSE
    /\ k_last = None

\* lines 200-215: a simulated radio opens no UART; a physical one calls
\* UART(...), and when that raises it switches to simulation
CtorUart ==
    /\ k_pc = "uart"
    /\ IF simulate
       THEN /\ k_pc' = "done"
            /\ r_pc' = "call"
            /\ UNCHANGED <<simulate, uart_open, k_raised>>
       ELSE \E o \in {"ok", "raise"} :
              /\ k_raised' = (o = "raise")
              /\ uart_open' = (o = "ok")
              /\ simulate' = (o = "raise")
              /\ k_pc' = IF o = "ok" THEN "ping" ELSE "done"
              /\ r_pc' = "call"
    /\ UNCHANGED <<SIMULATE, n_pings, k_last>>
    /\ UNCHANGED <<RETRY_CFG, _tick, _sim_states, states, a_op, p_idx, out, last_out,
                   req_id, req_ret, attempt, x_cmd, x_gid, x_timeout, x_buf,
                   x_read, x_ret, t_hist, b_hist, uart_rx, air, n_tx, last_tx,
                   statVars>>

\* check_hardware, lines 357-358: ping calls _exchange(CMD_PING, 0)
CtorPing ==
    /\ k_pc = "ping"
    /\ r_pc = "call"
    /\ ExchangeCall(CMD_PING, 0, REPLY_TIMEOUT_MS)
    /\ UNCHANGED <<RETRY_CFG, simulate, _tick, states, a_op, p_idx, out,
                   last_out, req_id, req_ret, attempt, t_hist, b_hist,
                   uart_rx, air, n_tx, statCfg, rxStat, timeouts>>
    /\ UNCHANGED ctorVars

\* lines 358-364 and 210-212: a valid reply ends the check and the radio
\* stays physical; after the last ping without one the radio switches to
\* simulation
CtorPingDone ==
    /\ k_pc = "ping"
    /\ r_pc = "ret"
    /\ k_last' = x_ret
    /\ n_pings' = n_pings + 1
    /\ r_pc' = "call"
    /\ IF ping(x_ret)
       THEN k_pc' = "done" /\ UNCHANGED simulate
       ELSE IF n_pings + 1 < PingTries
       THEN UNCHANGED <<k_pc, simulate>>
       ELSE k_pc' = "done" /\ simulate' = TRUE
    /\ UNCHANGED <<SIMULATE, uart_open, k_raised>>
    /\ UNCHANGED <<RETRY_CFG, _tick, _sim_states, states, a_op, p_idx, out, last_out,
                   req_id, req_ret, attempt, x_cmd, x_gid, x_timeout, x_buf,
                   x_read, x_ret, t_hist, b_hist, uart_rx, air, n_tx, last_tx,
                   statVars>>

\* a caller of the built radio calls _exchange(CMD_GET_STS, 1)
CtorOp ==
    /\ k_pc = "done"
    /\ r_pc = "call"
    /\ ExchangeCall(CMD_GET_STS, 1, REPLY_TIMEOUT_MS)
    /\ UNCHANGED <<RETRY_CFG, simulate, _tick, states, a_op, p_idx, out,
                   last_out, req_id, req_ret, attempt, t_hist, b_hist,
                   uart_rx, air, n_tx, statCfg, rxStat, timeouts>>
    /\ UNCHANGED ctorVars

\* the call has returned; the next one can follow
CtorOpDone ==
    /\ k_pc = "done"
    /\ r_pc = "ret"
    /\ r_pc' = "call"
    /\ UNCHANGED <<RETRY_CFG, simulate, _tick, _sim_states, states, a_op, p_idx, out,
                   last_out, req_id, req_ret, attempt, x_cmd, x_gid, x_timeout,
                   x_buf, x_read, x_ret, t_hist, b_hist, uart_rx, air, n_tx,
                   last_tx, statVars>>
    /\ UNCHANGED ctorVars

----------------------------------------------------------------------------
(* The display: TaApp._refresh_ui (ta_app.py lines 69-89) over
   UI.update_group, UI.render_dirty and UI._draw_group (ta_ui.py lines
   161-219). Python's True, False and None are the strings below; a Python
   index i is position i + 1 of a sequence. *)

PyTrue == "True"
PyFalse == "False"
PyNone == "None"

\* UI.group_count, ta_ui.py line 50
group_count == 5

\* states a sweep can enter in the table: the payload byte of a one-byte
\* status reply, and Unknown when no such reply came (ta_radio_433.py
\* lines 329-334)
PollStates == {STATE_UNKNOWN, STATE_PRESENT, STATE_ABSENT, 255}

\* the display as UI.__init__ leaves it (ta_ui.py lines 50-57, 68): no state
\* known, nothing dirty, every box drawn
UIFresh ==
    /\ groups = [i \in 1..group_count |-> PyNone]
    /\ _group_states_cache = [i \in 1..group_count |-> PyNone]
    /\ _dirty_groups = {}
    /\ screen = [i \in 1..group_count |-> "UNK"]

UIIdle ==
    /\ UIFresh
    /\ ui_pc = "off"
    /\ _dirty_tracking = TRUE

UIInit ==
    /\ UIFresh
    /\ ui_pc = "poll"
    /\ _dirty_tracking \in BOOLEAN

\* _refresh_ui lines 75-80: the state passed to update_group
GroupState(st) ==
    IF st = STATE_PRESENT THEN PyTrue
    ELSE IF st = STATE_ABSENT THEN PyFalse
    ELSE PyNone

\* _state_color and the text _draw_group writes (ta_ui.py lines 161-166, 218)
StateText(state) ==
    IF state = PyTrue THEN "ON"
    ELSE IF state = PyFalse THEN "OFF"
    ELSE "UNK"

\* _draw_group(i) on a display ui
_draw_group(ui, i) ==
    [ui EXCEPT !.screen[i + 1] = StateText(ui.groups[i + 1])]

\* update_group(index, state=state), lines 168-194: an index outside the
\* boxes is ignored; a state that is not None and differs from the cached
\* one is stored and the box marked dirty, or drawn when dirty tracking is off
update_group(ui, index, state) ==
    IF ~(0 <= index /\ index < group_count) THEN ui
    ELSE IF state # PyNone /\ ui.cache[index + 1] # state
    THEN LET u == [ui EXCEPT !.groups[index + 1] = state,
                             !.cache[index + 1] = state]
         IN  IF ui.tracking THEN [u EXCEPT !.dirty = @ \cup {index}]
             ELSE _draw_group(u, index)
    ELSE ui

\* render_dirty, lines 200-204
RECURSIVE DrawAll(_, _)
DrawAll(ui, todo) ==
    IF todo = {} THEN ui
    ELSE LET i == CHOOSE k \in todo : TRUE
         IN  DrawAll(_draw_group(ui, i), todo \ {i})

render_dirty(ui) == [DrawAll(ui, ui.dirty) EXCEPT !.dirty = {}]

\* the loop of _refresh_ui lines 73-82 from position idx of GROUP_IDS on
RECURSIVE UpdateGroups(_, _, _)
UpdateGroups(ui, tbl, idx) ==
    IF idx >= Len(GROUP_IDS) THEN ui
    ELSE LET dd_id == GROUP_IDS[idx + 1]
             st == IF dd_id \in DOMAIN tbl THEN tbl[dd_id] ELSE STATE_UNKNOWN
         IN  UpdateGroups(update_group(ui, idx, GroupState(st)), tbl, idx + 1)

\* _refresh_ui on a display ui and a table tbl
_refresh_ui(ui, tbl) ==
    LET u == UpdateGroups(ui, tbl, 0)
    IN  IF ui.tracking THEN render_dirty(u) ELSE u

\* the display at hand, as a record
Display ==
    [groups |-> groups, cache |-> _group_states_cache, dirty |-> _dirty_groups,
     screen |-> screen, tracking |-> _dirty_tracking]

\* _update_states (ta_app.py lines 91-98) over a sweep that was due: every
\* configured device gets the state its exchange gave
UIUpdateStates ==
    /\ ui_pc = "poll"
    /\ \E sts \in [1..Len(GROUP_IDS) -> PollStates] :
         states' = ApplyStatuses(states,
                       [i \in 1..Len(GROUP_IDS) |-> DDStatus(GROUP_IDS[i], sts[i])])
    /\ ui_pc' = "refresh"
    /\ UNCHANGED <<_dirty_tracking, groups, _group_states_cache, _dirty_groups,
                   screen>>

\* _refresh_ui, then the loop is back at _update_states
UIRefresh ==
    /\ ui_pc = "refresh"
    /\ LET u == _refresh_ui(Display, states)
       IN  /\ groups' = u.groups
           /\ _group_states_cache' = u.cache
           /\ _dirty_groups' = u.dirty
           /\ screen' = u.screen
    /\ ui_pc' = "poll"
    /\ UNCHANGED <<_dirty_tracking, states>>

----------------------------------------------------------------------------
(* The same call made on two radios in step, one built with statistics and
   one without (line 182), under the same operations and transport
   behaviour *)

\* the radio at work, as a record
Radio ==
    [RETRY_CFG |-> RETRY_CFG, simulate |-> simulate, _tick |-> _tick,
     _sim_states |-> _sim_states, states |-> states, a_op |-> a_op,
     p_idx |-> p_idx, out |-> out, last_out |-> last_out,
     req_id |-> req_id, req_ret |-> req_ret, attempt |-> attempt,
     r_pc |-> r_pc, x_cmd |-> x_cmd, x_gid |-> x_gid,
     x_timeout |-> x_timeout, x_buf |-> x_buf, x_read |-> x_read,
     x_ret |-> x_ret, t_hist |-> t_hist, b_hist |-> b_hist,
     uart_rx |-> uart_rx, air |-> air, n_tx |-> n_tx, last_tx |-> last_tx,
     stats |-> stats, tx_count |-> tx_count, tx_errors |-> tx_errors,
     rx_count |-> rx_count, rx_errors |-> rx_errors, timeouts |-> timeouts,
     uart_faulty |-> uart_faulty, n_faults |-> n_faults, w_ret |-> w_ret,
     x_fault |-> x_fault, x_raised |-> x_raised]

\* the statistics object and its counters
StatFields == {"stats", "tx_count", "tx_errors", "rx_count", "rx_errors", "timeouts"}

\* what a caller and the transport can see of a radio: everything but the
\* statistics
Visible(radio) == [f \in (DOMAIN radio) \ StatFields |-> radio[f]]

\* what the transport did in a step: whether the UART raised, and the bytes
\* on the air after it
Transport == <<n_faults, air>>

TwinIdle ==
    /\ tw_phase = "off"
    /\ tw_sig = <<>>
    /\ tw_other = <<>>

\* one call of _exchange_with_retry, and under it of _exchange, _write and
\* _read_all, is due on two physical radios whose UART can raise, one built
\* with statistics, one without
TwinInit ==
    /\ TAFresh
    /\ stats \in BOOLEAN
    /\ uart_faulty = TRUE
    /\ RETRY_CFG = ShippedRetry
    /\ simulate = FALSE
    /\ _sim_states = [g \in GroupIdSet |-> STATE_PRESENT]
    /\ a_op = "retry"
    /\ r_pc = "call"
    /\ tw_phase = "lead"
    /\ tw_sig = <<>>
    /\ tw_other = [Radio EXCEPT !.stats = ~stats]

\* the leading radio takes a step, which is written down with what the
\* transport did in it; the following radio takes the same step under the
\* same transport behaviour
TwinStep(kind, A) ==
    \/ /\ tw_phase = "lead"
       /\ A
       /\ tw_sig' = <<kind, Transport'>>
       /\ tw_phase' = "handover"
       /\ UNCHANGED tw_other
    \/ /\ tw_phase = "follow"
       /\ tw_sig[1] = kind
       /\ A
       /\ Transport' = tw_sig[2]
       /\ tw_phase' = "compare"
       /\ UNCHANGED <<tw_sig, tw_other>>

\* the step the following radio has to take
TwinReplay ==
    \/ TwinStep("CallRetry", CallRetry)
    \/ TwinStep("StartAttempt", StartAttempt)
    \/ TwinStep("RxIter", RxIter)
    \/ TwinStep("RxTimeout", RxTimeout)
    \/ TwinStep("Transmit", Transmit)
    \/ TwinStep("Arrive", Arrive)

\* the two radios change places
TwinSwap ==
    /\ tw_phase \in {"handover", "compare"}
    /\ tw_phase' = IF tw_phase = "handover" THEN "follow" ELSE "lead"
    /\ tw_other' = Radio
    /\ RETRY_CFG' = tw_other.RETRY_CFG
    /\ simulate' = tw_other.simulate
    /\ _tick' = tw_other._tick
    /\ _sim_states' = tw_other._sim_states
    /\ states' = tw_other.states
    /\ a_op' = tw_other.a_op
    /\ p_idx' = tw_other.p_idx
    /\ out' = tw_other.out
    /\ last_out' = tw_other.last_out
    /\ req_id' = tw_other.req_id
    /\ req_ret' = tw_other.req_ret
    /\ attempt' = tw_other.attempt
    /\ r_pc' = tw_other.r_pc
    /\ x_cmd' = tw_other.x_cmd
    /\ x_gid' = tw_other.x_gid
    /\ x_timeout' = tw_other.x_timeout
    /\ x_buf' = tw_other.x_buf
    /\ x_read' = tw_other.x_read
    /\ x_ret' = tw_other.x_ret
    /\ t_hist' = tw_other.t_hist
    /\ b_hist' = tw_other.b_hist
    /\ uart_rx' = tw_other.uart_rx
    /\ air' = tw_other.air
    /\ n_tx' = tw_other.n_tx
    /\ last_tx' = tw_other.last_tx
    /\ stats' = tw_other.stats
    /\ tx_count' = tw_other.tx_count
    /\ tx_errors' = tw_other.tx_errors
    /\ rx_count' = tw_other.rx_count
    /\ rx_errors' = tw_other.rx_errors
    /\ timeouts' = tw_other.timeouts
    /\ uart_faulty' = tw_other.uart_faulty
    /\ n_faults' = tw_other.n_faults
    /\ w_ret' = tw_other.w_ret
    /\ x_fault' = tw_other.x_fault
    /\ x_raised' = tw_other.x_raised
    /\ UNCHANGED tw_sig

----------------------------------------------------------------------------
(* One detector with a record of its link: what was sent to it and what its
   loop (dd/main.py lines 180-197) cut off the buffer *)

\* lines a sender puts on the link in these runs
LogLines ==
    {Line(T_POLL, Id01), Line(T_POLL, Id02), Line(T_POLL, <<"a", "l", "l">>),
     Line(T_SETID, Id07), <<"P", "I", "N", "G", NL>>, <<NL>>}

RECURSIVE Flatten(_)
Flatten(q) == IF q = <<>> THEN <<>> ELSE Head(q) \o Flatten(Tail(q))

LogIdle ==
    /\ sent_log = <<>>
    /\ disp_log = <<>>
    /\ boot_id = Id01

\* the record starts empty, with the identifier the detector booted with
LogInit ==
    /\ sent_log = <<>>
    /\ disp_log = <<>>
    /\ boot_id = DETECTOR_ID[1]

\* a sender puts one line on the link, whole or cut in two
LogSend ==
    /\ population = {1}
    /\ n_lines < MaxLines
    /\ dd_air[1] = <<>>
    /\ \E l \in LogLines : \E k \in Cuts(Len(l)) :
         /\ dd_air' = [dd_air EXCEPT ![1] = Pieces(l, k)]
         /\ sent_log' = Append(sent_log, l)
    /\ n_lines' = n_lines + 1
    /\ UNCHANGED <<population, DETECTOR_ID, dd_buf, d_pc, ok_count, nok_count,
                   setid_ok_count, setid_err_count, nvs, last_disp, dd_rx, dd_tx,
                   disp_log, boot_id>>

\* DispatchLine, with the line it cut off recorded
LogDispatch ==
    /\ DispatchLine(1)
    /\ disp_log' = Append(disp_log, [line |-> SubSeq(dd_buf[1], 1, IndexOf(dd_buf[1], NL)),
                                     ok |-> last_disp'[1].ok])
    /\ UNCHANGED <<sent_log, boot_id>>

----------------------------------------------------------------------------
(* One physical sweep: TaApp.run feeds the watchdog (ta_app.py line 146),
   _update_states calls poll_status on a call where a sweep is due, and
   poll_status (ta_radio_433.py lines 324-337) runs _exchange_with_retry
   (259-278) for each shipped device before the loop gets to feed again *)

\* MAIN["WATCHDOG_TIMEOUT_MS"]
WATCHDOG_TIMEOUT_MS == 30000

\* RADIO["GROUP_IDS"] as shipped
ShippedGroupIds == <<1, 2, 3, 4, 5>>

\* when a reply ends an attempt: early, or just before the attempt's timeout
ReplyAfterMs(timeout) == {20, timeout - 5}

RECURSIVE SumSeq(_)
SumSeq(q) == IF q = <<>> THEN 0 ELSE Head(q) + SumSeq(Tail(q))

SweepIdle ==
    /\ sw_pc = "off"
    /\ sw_idx = 0
    /\ sw_attempt = 0
    /\ sw_ms = 0
    /\ sw_silent = TRUE

SweepInit ==
    /\ sw_pc = "fed"
    /\ sw_idx = 0
    /\ sw_attempt = 0
    /\ sw_ms = 0
    /\ sw_silent = TRUE

\* the loop has fed the watchdog and enters the sweep with the first device
SweepStart ==
    /\ sw_pc = "fed"
    /\ sw_pc' = "attempt"
    /\ sw_idx' = 1
    /\ sw_attempt' = 0
    /\ UNCHANGED <<sw_ms, sw_silent>>

\* the device after this one, or the end of the sweep
SweepNextDevice ==
    /\ sw_attempt' = 0
    /\ IF sw_idx < Len(ShippedGroupIds)
       THEN sw_idx' = sw_idx + 1 /\ sw_pc' = "attempt"
       ELSE sw_idx' = sw_idx /\ sw_pc' = "swept"

\* lines 261-274: the attempt runs into its timeout, the backoff follows, and
\* either the next attempt or, after the last one, the next device
SweepTimeout ==
    /\ sw_pc = "attempt"
    /\ sw_ms' = sw_ms + AttemptTimeout(ShippedRetry, sw_attempt)
                      + SumSeq(BackoffWaits(ShippedRetry, sw_attempt))
    /\ IF sw_attempt + 1 < ShippedRetry.MAX_RETRIES
       THEN sw_attempt' = sw_attempt + 1 /\ UNCHANGED <<sw_pc, sw_idx>>
       ELSE SweepNextDevice
    /\ UNCHANGED sw_silent

\* lines 265-267: a reply ends the attempt and the call
SweepReply ==
    /\ sw_pc = "attempt"
    /\ \E e \in ReplyAfterMs(AttemptTimeout(ShippedRetry, sw_attempt)) :
         sw_ms' = sw_ms + e
    /\ sw_silent' = FALSE
    /\ SweepNextDevice

\* the sweep is over, the loop comes round and feeds the watchdog
SweepFeed ==
    /\ sw_pc = "swept"
    /\ sw_pc' = "fed"
    /\ sw_idx' = 0
    /\ sw_attempt' = 0
    /\ sw_ms' = 0
    /\ sw_silent' = TRUE

----------------------------------------------------------------------------
(* Specifications *)

vars == <<codecVars, taVars, ddVars, wdVars, wireVars, plVars, bootVars, loopVars, sweepVars, logVars, twinVars, uiVars, ctorVars>>

\* what each part of the program leaves alone
notCodec == <<taVars, ddVars, wdVars, wireVars, plVars, bootVars, loopVars, sweepVars, logVars, twinVars, uiVars, ctorVars>>
notTA == <<codecVars, ddVars, wdVars, wireVars, plVars, bootVars, loopVars, sweepVars, logVars, twinVars, uiVars, ctorVars>>
notDD == <<codecVars, taVars, wdVars, wireVars, plVars, bootVars, loopVars, sweepVars, logVars, twinVars, uiVars, ctorVars>>
notWdt == <<codecVars, taVars, ddVars, wireVars, plVars, bootVars, loopVars, sweepVars, logVars, twinVars, uiVars, ctorVars>>
notWire == <<codecVars, taVars, ddVars, wdVars, plVars, bootVars, loopVars, sweepVars, logVars, twinVars, uiVars, ctorVars>>
notPL == <<codecVars, taVars, ddVars, wdVars, wireVars, bootVars, loopVars, sweepVars, logVars, twinVars, uiVars, ctorVars>>
notBoot == <<codecVars, taVars, ddVars, wdVars, wireVars, plVars, loopVars, sweepVars, logVars, twinVars, uiVars, ctorVars>>

\* the frame codec on drawn inputs
InitCodec == CodecInit /\ TAIdle /\ DDIdle /\ WdtIdle /\ WireIdle /\ PLIdle /\ BootIdle /\ LoopIdle /\ SweepIdle /\ LogIdle /\ TwinIdle /\ UIIdle /\ CtorIdle
NextCodec ==
    \/ Encode /\ UNCHANGED notCodec
    \/ Decode /\ UNCHANGED notCodec
SpecCodec == InitCodec /\ [][NextCodec]_vars

\* the terminal: polling sweeps and status requests over the radio
InitTA == TAInit /\ CodecIdle /\ DDIdle /\ WdtIdle /\ WireIdle /\ PLIdle /\ BootIdle /\ LoopIdle /\ SweepIdle /\ LogIdle /\ TwinIdle /\ UIIdle /\ CtorIdle
NextTA ==
    \/ UpdateStates /\ UNCHANGED notTA
    \/ PollCollect /\ UNCHANGED notTA
    \/ RequestStatus /\ UNCHANGED notTA
    \/ RequestReturn /\ UNCHANGED notTA
    \/ StartAttempt /\ UNCHANGED notTA
    \/ RxIter /\ UNCHANGED notTA
    \/ RxTimeout /\ UNCHANGED notTA
    \/ Transmit /\ UNCHANGED notTA
    \/ Arrive /\ UNCHANGED notTA
SpecTA == InitTA /\ [][NextTA]_vars

\* one _exchange_with_retry call under each retry policy
InitRetry == RetryInit /\ CodecIdle /\ DDIdle /\ WdtIdle /\ WireIdle /\ PLIdle /\ BootIdle /\ LoopIdle /\ SweepIdle /\ LogIdle /\ TwinIdle /\ UIIdle /\ CtorIdle
NextRetry ==
    \/ CallRetry /\ UNCHANGED notTA
    \/ StartAttempt /\ UNCHANGED notTA
    \/ RxIter /\ UNCHANGED notTA
    \/ RxTimeout /\ UNCHANGED notTA
    \/ Transmit /\ UNCHANGED notTA
    \/ Arrive /\ UNCHANGED notTA
SpecRetry == InitRetry /\ [][NextRetry]_vars

\* one _exchange_with_retry call over a UART that can raise
InitFault == FaultInit /\ CodecIdle /\ DDIdle /\ WdtIdle /\ WireIdle /\ PLIdle /\ BootIdle /\ LoopIdle /\ SweepIdle /\ LogIdle /\ TwinIdle /\ UIIdle /\ CtorIdle
NextFault ==
    \/ CallRetry /\ UNCHANGED notTA
    \/ StartAttempt /\ UNCHANGED notTA
    \/ RxIter /\ UNCHANGED notTA
    \/ RxTimeout /\ UNCHANGED notTA
    \/ Transmit /\ UNCHANGED notTA
    \/ Arrive /\ UNCHANGED notTA
SpecFault == InitFault /\ [][NextFault]_vars

\* one detector from power-on, through SETID and POLL lines and resets
notLife == <<codecVars, taVars, wdVars, wireVars, plVars, loopVars, sweepVars, logVars, twinVars, uiVars, ctorVars>>
InitLife == LifeInit /\ CodecIdle /\ TAIdle /\ WdtIdle /\ WireIdle /\ PLIdle /\ LoopIdle /\ SweepIdle /\ LogIdle /\ TwinIdle /\ UIIdle /\ CtorIdle
NextLife ==
    \/ LifeBoot /\ UNCHANGED notLife
    \/ LifeReset /\ UNCHANGED notLife
    \/ LifeSend /\ UNCHANGED notLife
    \/ DDArrive(1) /\ UNCHANGED <<notLife, bootVars>>
    \/ LoopTop(1) /\ UNCHANGED <<notLife, bootVars>>
    \/ DispatchLine(1) /\ UNCHANGED <<notLife, bootVars>>
SpecLife == InitLife /\ [][NextLife]_vars

\* one detector fed lines in pieces, with the record of its link
notLog == <<codecVars, taVars, wdVars, wireVars, plVars, bootVars, loopVars, sweepVars, twinVars, uiVars, ctorVars>>
InitLog == DDInit /\ LogInit /\ TwinIdle /\ UIIdle /\ CtorIdle /\ CodecIdle /\ TAIdle /\ WdtIdle /\ WireIdle /\ PLIdle /\ BootIdle /\ LoopIdle /\ SweepIdle
NextLog ==
    \/ LogSend /\ UNCHANGED notLog
    \/ DDArrive(1) /\ UNCHANGED <<notLog, logVars>>
    \/ LoopTop(1) /\ UNCHANGED <<notLog, logVars>>
    \/ LogDispatch /\ UNCHANGED notLog
SpecLog == InitLog /\ [][NextLog]_vars

\* one call made on a radio with statistics and on one without
notTwin == <<codecVars, ddVars, wdVars, wireVars, plVars, bootVars, loopVars, sweepVars, logVars, uiVars, ctorVars>>
InitTwin == TwinInit /\ UIIdle /\ CtorIdle /\ CodecIdle /\ DDIdle /\ WdtIdle /\ WireIdle /\ PLIdle /\ BootIdle /\ LoopIdle /\ SweepIdle /\ LogIdle
NextTwin ==
    \/ TwinStep("CallRetry", CallRetry) /\ UNCHANGED notTwin
    \/ TwinStep("StartAttempt", StartAttempt) /\ UNCHANGED notTwin
    \/ TwinStep("RxIter", RxIter) /\ UNCHANGED notTwin
    \/ TwinStep("RxTimeout", RxTimeout) /\ UNCHANGED notTwin
    \/ TwinStep("Transmit", Transmit) /\ UNCHANGED notTwin
    \/ TwinStep("Arrive", Arrive) /\ UNCHANGED notTwin
    \/ TwinSwap /\ UNCHANGED notTwin
SpecTwin == InitTwin /\ [][NextTwin]_vars

\* a radio from its construction on
notCtor == <<codecVars, ddVars, wdVars, wireVars, plVars, bootVars, loopVars, sweepVars, logVars, twinVars, uiVars>>
InitCtor == CtorInit /\ CodecIdle /\ DDIdle /\ WdtIdle /\ WireIdle /\ PLIdle /\ BootIdle /\ LoopIdle /\ SweepIdle /\ LogIdle /\ TwinIdle /\ UIIdle
NextCtor ==
    \/ CtorUart /\ UNCHANGED notCtor
    \/ CtorPing /\ UNCHANGED notCtor
    \/ CtorPingDone /\ UNCHANGED notCtor
    \/ CtorOp /\ UNCHANGED notCtor
    \/ CtorOpDone /\ UNCHANGED notCtor
    \/ RxIter /\ UNCHANGED <<notCtor, ctorVars>>
    \/ RxTimeout /\ UNCHANGED <<notCtor, ctorVars>>
    \/ Transmit /\ UNCHANGED <<notCtor, ctorVars>>
    \/ Arrive /\ UNCHANGED <<notCtor, ctorVars>>
SpecCtor == InitCtor /\ [][NextCtor]_vars

\* the table of states and the display, refresh after refresh
taButStates == <<RETRY_CFG, simulate, _tick, _sim_states, a_op, p_idx, out, last_out,
                 req_id, req_ret, attempt, r_pc, x_cmd, x_gid, x_timeout, x_buf,
                 x_read, x_ret, t_hist, b_hist, uart_rx, air, n_tx, last_tx, statVars>>
notUI == <<codecVars, taButStates, ddVars, wdVars, wireVars, plVars, bootVars, loopVars, sweepVars, logVars, twinVars, ctorVars>>
InitUI == UIInit /\ CtorIdle /\ TAIdle /\ CodecIdle /\ DDIdle /\ WdtIdle /\ WireIdle /\ PLIdle /\ BootIdle /\ LoopIdle /\ SweepIdle /\ LogIdle /\ TwinIdle
NextUI ==
    \/ UIUpdateStates /\ UNCHANGED notUI
    \/ UIRefresh /\ UNCHANGED notUI
SpecUI == InitUI /\ [][NextUI]_vars

\* one physical sweep between two feeds
notSweep == <<codecVars, taVars, ddVars, wdVars, wireVars, plVars, bootVars, loopVars, logVars, twinVars, uiVars, ctorVars>>
InitSweep == SweepInit /\ CodecIdle /\ TAIdle /\ DDIdle /\ WdtIdle /\ WireIdle /\ PLIdle /\ BootIdle /\ LoopIdle /\ LogIdle /\ TwinIdle /\ UIIdle /\ CtorIdle
NextSweep ==
    \/ SweepStart /\ UNCHANGED notSweep
    \/ SweepTimeout /\ UNCHANGED notSweep
    \/ SweepReply /\ UNCHANGED notSweep
    \/ SweepFeed /\ UNCHANGED notSweep
SpecSweep == InitSweep /\ [][NextSweep]_vars

notLoop == <<codecVars, ddVars, wdVars, wireVars, plVars, bootVars, sweepVars, logVars, twinVars, uiVars, ctorVars>>

\* the terminal's control loop alone, statistics on, on a UART that can raise
InitTLoop == TLoopInit /\ FaultInit /\ stats = TRUE /\ CodecIdle /\ DDIdle /\ WdtIdle /\ WireIdle /\ PLIdle /\ BootIdle /\ SweepIdle /\ LogIdle /\ TwinIdle /\ UIIdle /\ CtorIdle
NextTLoop ==
    \/ SetTesting /\ UNCHANGED notLoop
    \/ TLFeed /\ UNCHANGED notLoop
    \/ TLUpdate /\ UNCHANGED notLoop
    \/ TLRefresh /\ UNCHANGED notLoop
    \/ TLTesting /\ UNCHANGED notLoop
SpecTLoop == InitTLoop /\ [][NextTLoop]_vars

\* the two control loops, the terminal keeping statistics (the shipped
\* STATS_ENABLED) on a UART that can raise
InitLoop == LoopInit /\ FaultInit /\ stats = TRUE /\ CodecIdle /\ DDIdle /\ WdtIdle /\ WireIdle /\ PLIdle /\ BootIdle /\ SweepIdle /\ LogIdle /\ TwinIdle /\ UIIdle /\ CtorIdle
NextLoop ==
    \/ SetTesting /\ UNCHANGED notLoop
    \/ TLFeed /\ UNCHANGED notLoop
    \/ TLUpdate /\ UNCHANGED notLoop
    \/ TLRefresh /\ UNCHANGED notLoop
    \/ TLTesting /\ UNCHANGED notLoop
    \/ DLStamp /\ UNCHANGED notLoop
    \/ DLBody /\ UNCHANGED notLoop
    \/ DLSleep /\ UNCHANGED notLoop
SpecLoop == InitLoop /\ [][NextLoop]_vars

\* one _exchange call against each transmission
InitExchange == ExchangeInit /\ CodecIdle /\ DDIdle /\ WdtIdle /\ WireIdle /\ PLIdle /\ BootIdle /\ LoopIdle /\ SweepIdle /\ LogIdle /\ TwinIdle /\ UIIdle /\ CtorIdle
NextExchange ==
    \/ CallExchange /\ UNCHANGED notTA
    \/ RxIter /\ UNCHANGED notTA
    \/ RxTimeout /\ UNCHANGED notTA
    \/ Transmit /\ UNCHANGED notTA
    \/ Arrive /\ UNCHANGED notTA
SpecExchange == InitExchange /\ [][NextExchange]_vars

\* one detector fed lines in arbitrary pieces
InitDD == DDInit /\ CodecIdle /\ TAIdle /\ WdtIdle /\ WireIdle /\ PLIdle /\ BootIdle /\ LoopIdle /\ SweepIdle /\ LogIdle /\ TwinIdle /\ UIIdle /\ CtorIdle
NextDD ==
    \/ \E d \in Detectors : LoopTop(d) /\ UNCHANGED notDD
    \/ \E d \in Detectors : DispatchLine(d) /\ UNCHANGED notDD
    \/ SendLine /\ UNCHANGED notDD
    \/ \E d \in Detectors : DDArrive(d) /\ UNCHANGED notDD
SpecDD == InitDD /\ [][NextDD]_vars

\* two detectors hearing the same lines
InitDDPair == DDPairInit /\ CodecIdle /\ TAIdle /\ WdtIdle /\ WireIdle /\ PLIdle /\ BootIdle /\ LoopIdle /\ SweepIdle /\ LogIdle /\ TwinIdle /\ UIIdle /\ CtorIdle
SpecDDPair == InitDDPair /\ [][NextDD]_vars

\* the detector's main loop stamping, and its watchdog timer
InitWdt == WdtInit /\ CodecIdle /\ TAIdle /\ DDIdle /\ WireIdle /\ PLIdle /\ BootIdle /\ LoopIdle /\ SweepIdle /\ LogIdle /\ TwinIdle /\ UIIdle /\ CtorIdle
NextWdt ==
    \/ LoopStamp /\ UNCHANGED notWdt
    \/ LoopStall /\ UNCHANGED notWdt
    \/ TimePasses /\ UNCHANGED notWdt
    \/ TimerFires /\ UNCHANGED notWdt
    \/ TimerReenters /\ UNCHANGED notWdt
    \/ CbGuard /\ UNCHANGED notWdt
    \/ CbCheck /\ UNCHANGED notWdt
    \/ CbSet /\ UNCHANGED notWdt
    \/ CbBlink /\ UNCHANGED notWdt
    \/ CbReset /\ UNCHANGED notWdt
SpecWdt == InitWdt /\ [][NextWdt]_vars

\* the same, with time passing and the timer, once due, being served
SpecWdtFair == SpecWdt /\ WF_vars(NextWdt)

\* frames built, damaged on the way and parsed
InitWire == WireInit /\ CodecIdle /\ TAIdle /\ DDIdle /\ WdtIdle /\ PLIdle /\ BootIdle /\ LoopIdle /\ SweepIdle /\ LogIdle /\ TwinIdle /\ UIIdle /\ CtorIdle
NextWire ==
    \/ WireSend /\ UNCHANGED notWire
    \/ WireDamage /\ UNCHANGED notWire
    \/ WireParse /\ UNCHANGED notWire
SpecWire == InitWire /\ [][NextWire]_vars

\* parse_line on drawn lines
InitPL == PLInit /\ CodecIdle /\ TAIdle /\ DDIdle /\ WdtIdle /\ WireIdle /\ BootIdle /\ LoopIdle /\ SweepIdle /\ LogIdle /\ TwinIdle /\ UIIdle /\ CtorIdle
NextPL ==
    \/ ParseLine /\ UNCHANGED notPL
SpecPL == InitPL /\ [][NextPL]_vars

\* a detector resolving its identifier at boot
InitBoot ==
    BootInit /\ CodecIdle /\ TAIdle /\ DDIdle /\ WdtIdle /\ WireIdle /\ PLIdle /\ LoopIdle
        /\ SweepIdle /\ LogIdle /\ TwinIdle /\ UIIdle /\ CtorIdle
NextBoot ==
    \/ Boot /\ UNCHANGED notBoot
SpecBoot == InitBoot /\ [][NextBoot]_vars

----------------------------------------------------------------------------
(* C1: a device's stored Present/Absent state never goes back to Unknown:
   whatever a later poll of that device yields (a timeout, an invalid reply),
   the state stored in the terminal's table stays Present or Absent. *)
C1_NoSilentRevert ==
    [][\A g \in GroupIdSet :
          states[g] \in {STATE_PRESENT, STATE_ABSENT}
              => states'[g] # STATE_UNKNOWN]_vars

----------------------------------------------------------------------------
(* C2: decoding an encoded frame gives back exactly the command, the target
   id and the payload that were encoded, for every payload that fits
   (length <= MAX_LEN - 7), marker bytes inside the payload included. *)
C2_RoundTrip ==
    (c_pc = "decoded" /\ Len(c_payload) <= MAX_LEN - 7)
        => c_parsed = <<c_cmd, c_gid, c_payload>>

\* a full-length payload ending in the end marker has gone through both ways
C2_Witness ==
    /\ c_pc = "decoded"
    /\ Len(c_payload) = MAX_LEN - 7
    /\ c_payload[Len(c_payload)] = END_BYTE
    /\ c_cmd = START_BYTE
    /\ c_parsed = <<c_cmd, c_gid, c_payload>>

----------------------------------------------------------------------------
(* C3: an _exchange call on a physical radio returns None only if its
   receive buffer never came to hold a structurally valid frame: with a valid
   frame somewhere in the accumulated bytes (after junk, after a stray start
   marker, with the end-marker value inside it) the call returns a frame. *)
C3_ValidFrameIsReturned ==
    (a_op = "exchange" /\ r_pc = "ret" /\ ContainsValidFrame(x_buf))
        => x_ret # None

----------------------------------------------------------------------------
(* C4 *)

\* _exchange_with_retry has returned and every attempt it made timed out
AllTimedOut == a_op = "retry" /\ r_pc = "ret" /\ attempt = Len(t_hist)

MultiplierAboveOne == RETRY_CFG.MULT_NUM > RETRY_CFG.MULT_DEN

\* TIMEOUT_BASE_MS * (TIMEOUT_MULTIPLIER - 1) >= 2
StepAtLeastTwo ==
    RETRY_CFG.TIMEOUT_BASE_MS * (RETRY_CFG.MULT_NUM - RETRY_CFG.MULT_DEN)
        >= 2 * RETRY_CFG.MULT_DEN

(* C4 as claimed: when every attempt times out, _exchange is called exactly
   MAX_RETRIES times, None is returned, and under a multiplier above 1 with a
   base of at least 100 each attempt's timeout is strictly greater than the
   previous attempt's. *)
C4_StrictlyIncreasing ==
    AllTimedOut =>
        /\ Len(t_hist) = RETRY_CFG.MAX_RETRIES
        /\ x_ret = None
        /\ (MultiplierAboveOne /\ RETRY_CFG.TIMEOUT_BASE_MS >= 100)
               => \A i \in 2..Len(t_hist) : t_hist[i] > t_hist[i - 1]

(* C4 amended: when every attempt times out, _exchange is called exactly
   MAX_RETRIES times and None is returned; under a multiplier above 1 with a
   base of at least 100 no attempt's timeout is smaller than the previous
   attempt's, and it is strictly greater when
   TIMEOUT_BASE_MS * (TIMEOUT_MULTIPLIER - 1) >= 2. *)
C4_NonDecreasing ==
    AllTimedOut =>
        /\ Len(t_hist) = RETRY_CFG.MAX_RETRIES
        /\ x_ret = None
        /\ (MultiplierAboveOne /\ RETRY_CFG.TIMEOUT_BASE_MS >= 100)
               => \A i \in 2..Len(t_hist) :
                     /\ t_hist[i] >= t_hist[i - 1]
                     /\ StepAtLeastTwo => t_hist[i] > t_hist[i - 1]

\* the shipped policy has run out of attempts: 500, 750, 1125
C4_Witness ==
    /\ AllTimedOut
    /\ RETRY_CFG.TIMEOUT_BASE_MS = 500
    /\ t_hist = <<500, 750, 1125>>
    /\ x_ret = None

----------------------------------------------------------------------------
(* C10: a state recorded for device g comes only from a reply frame whose
   target id is g: whenever poll_status or request_status takes the state out
   of a reply, that reply's target id is the id that was asked. *)
C10_ReplyMatchesRequest ==
    [][/\ (/\ a_op = "poll"
           /\ r_pc = "ret"
           /\ x_ret # None
           /\ StatusOf(x_ret) # STATE_UNKNOWN
           /\ \/ out' = Append(out, DDStatus(GROUP_IDS[p_idx], StatusOf(x_ret)))
              \/ last_out' = Append(out, DDStatus(GROUP_IDS[p_idx], StatusOf(x_ret))))
          => x_ret[2] = GROUP_IDS[p_idx]
       /\ (/\ a_op = "request"
           /\ r_pc = "ret"
           /\ x_ret # None
           /\ StatusOf(x_ret) # STATE_UNKNOWN
           /\ a_op' = "none"
           /\ req_ret' = StatusOf(x_ret))
          => x_ret[2] = req_id]_vars

\* the line the detector's line loop is about to cut off its buffer
NextLine(d) == SubSeq(dd_buf[d], 1, IndexOf(dd_buf[d], NL))

\* this step is detector d dispatching the line l
Dispatches(d, l) ==
    /\ d \in population
    /\ d_pc[d] = "lines"
    /\ NextLine(d) = l
    /\ dd_buf'[d] # dd_buf[d]

\* C7: a SETID:<new> line with an id of 1..8 characters whose persistence
\* fails leaves the active identifier as it was and is answered
\* ACKSETID:<new>:ERR; when persistence succeeds the active identifier becomes
\* <new> and the answer is ACKSETID:<new>:OK, and a POLL:<new> that is the
\* very next line dispatched is answered ACK:<new>:<state>
C7_SetIdFollowsPersistence ==
    [][\A d \in Detectors : \A new \in SetIdArgs :
         /\ (Len(new) \in 1..8 /\ Dispatches(d, Line(T_SETID, new))) =>
               IF last_disp'[d].ok
               THEN /\ DETECTOR_ID'[d] = new
                    /\ dd_tx'[d] = Append(dd_tx[d], AckSetIdText(TRUE, new))
               ELSE /\ DETECTOR_ID'[d] = DETECTOR_ID[d]
                    /\ dd_tx'[d] = Append(dd_tx[d], AckSetIdText(FALSE, new))
         /\ (/\ last_disp[d] = [cmd |-> "SETID", arg |-> new, ok |-> TRUE]
             /\ Dispatches(d, Line(T_POLL, new))) =>
               dd_tx'[d] = Append(dd_tx[d], AckText(new, measure_state))
      ]_vars

\* a detector took the identifier 07, said so, and acknowledged the POLL:07
\* that came next
C7_Witness ==
    /\ DETECTOR_ID[1] = Id07
    /\ setid_ok_count[1] = 1
    /\ dd_tx[1] = <<AckSetIdText(TRUE, Id07), AckText(Id07, measure_state)>>

\* every upper/lower-case spelling of the broadcast token
AllSpellings ==
    {<<a, b, c>> : a \in {"A", "a"}, b \in {"L", "l"}, c \in {"L", "l"}}

\* C8: a POLL line whose (trimmed) id is the detector's current identifier X
\* or any spelling of ALL is answered with exactly one ACK:X:<state> and
\* counted as addressed; a POLL line with any other id is not answered and
\* only the not-addressed counter grows
C8_PollAddressing ==
    [][\A d \in Detectors : \A a \in PollArgs :
         Dispatches(d, Line(T_POLL, a)) =>
           IF Strip(a) = DETECTOR_ID[d] \/ Strip(a) \in AllSpellings
           THEN /\ dd_tx'[d] = Append(dd_tx[d], AckText(DETECTOR_ID[d], measure_state))
                /\ ok_count'[d] = ok_count[d] + 1
                /\ nok_count'[d] = nok_count[d]
           ELSE /\ dd_tx'[d] = dd_tx[d]
                /\ nok_count'[d] = nok_count[d] + 1
                /\ ok_count'[d] = ok_count[d]
                /\ setid_ok_count'[d] = setid_ok_count[d]
                /\ setid_err_count'[d] = setid_err_count[d]
      ]_vars

\* a POLL for another detector went unanswered, then POLL:aLl was answered
C8_Witness ==
    /\ nok_count[1] = 1
    /\ ok_count[1] = 1
    /\ last_disp[1] = [cmd |-> "POLL", arg |-> <<"a", "L", "l">>, ok |-> FALSE]
    /\ dd_tx[1] = <<AckText(DETECTOR_ID[1], measure_state)>>

\* C9: two detectors that start with distinct identifiers on one shared link
\* still have distinct identifiers after any sequence of POLL/SETID lines
C9_IdsStayDistinct ==
    \A d, e \in population : d # e => DETECTOR_ID[d] # DETECTOR_ID[e]

\* the guard turned back a firing that interrupted the triggering callback
GuardTurnedBack == n_guard > 0

\* C5: once the stamp is older than WATCHDOG_MS the reset path (flag, blink,
\* reset) is entered exactly once, however often the timer callback fires
\* again or interrupts the callback that is triggering; a reset is always
\* the end of one single entry made with a stamp older than WATCHDOG_MS
C5_ResetPathEnteredOnce ==
    /\ n_enter <= 1
    /\ _wdt_triggered <=> (n_enter = 1)
    /\ n_enter = 1 => ticks_diff(now, last_loop_ts) > WATCHDOG_MS
    /\ was_reset => n_enter = 1

\* the detector was reset after two further firings ran into the guard
C5_Witness ==
    /\ was_reset
    /\ n_enter = 1
    /\ n_guard = MaxReenter

\* C6 as stated: reset() comes no later than WATCHDOG_MS plus one timer
\* period after the last stamp
C6_ResetWithinTimeoutPlusPeriod ==
    was_reset => ticks_diff(reset_at, last_loop_ts) <= WATCHDOG_MS + WdtPeriod

\* C6: once the main loop has stopped stamping, the watchdog callback
\* eventually calls reset(), and it does so no later than WATCHDOG_MS plus one
\* timer period plus the duration of the failure blink after the last stamp
C6_ResetWithinTimeoutPeriodAndBlink ==
    /\ [](was_reset =>
            ticks_diff(reset_at, last_loop_ts)
                <= WATCHDOG_MS + WdtPeriod + _blink_led(4, 80, 80))
    /\ ((loop_state = "stalled") ~> was_reset)

\* a reset that came the full timeout, period and blink after the last stamp
C6_Witness ==
    /\ was_reset
    /\ loop_state = "stalled"
    /\ ticks_diff(reset_at, last_loop_ts)
           = WATCHDOG_MS + WdtPeriod + _blink_led(4, 80, 80)

\* the XOR of the bytes buf[lo..hi] (1-based, inclusive)
RECURSIVE XorRange(_, _, _)
XorRange(buf, lo, hi) ==
    IF lo > hi THEN 0 ELSE Xor8(buf[lo], XorRange(buf, lo + 1, hi))

\* at least 7 bytes, both markers in place, declared length plus 7 equal to
\* the total length, and version, command, id, length and payload bytes
\* XOR-ing to the checksum byte
WellFormed(buf) ==
    /\ Len(buf) >= 7
    /\ buf[1] = START_BYTE
    /\ buf[Len(buf)] = END_BYTE
    /\ buf[5] + 7 = Len(buf)
    /\ XorRange(buf, 2, Len(buf) - 2) = buf[Len(buf) - 1]

\* C11: _parse_frame returns a frame (the command, id and payload bytes of
\* its input) exactly when the input is well formed, and None for every other
\* byte sequence
C11_ParsesExactlyWellFormed ==
    w_pc = "parsed" =>
        IF WellFormed(w_buf)
        THEN w_parsed = <<w_buf[3], w_buf[4], SubSeq(w_buf, 6, Len(w_buf) - 2)>>
        ELSE w_parsed = None

\* a frame whose version byte and checksum byte had the same bit inverted
\* was parsed and returned
C11_Witness ==
    /\ w_pc = "parsed"
    /\ w_damage.kind = "flip2"
    /\ w_damage.pos = 2
    /\ w_parsed = <<w_cmd, w_gid, w_payload>>

\* C12: a frame made by _mk_frame whose checksum byte had one bit inverted is
\* refused by _parse_frame
C12_ChecksumBitFlipRefused ==
    (/\ w_pc = "parsed"
     /\ w_damage.kind = "flip"
     /\ w_damage.pos = Len(w_sent) - 1) => w_parsed = None

\* the top bit of the checksum of a frame carrying the end marker as payload
\* was inverted, and the frame was refused
C12_Witness ==
    /\ w_pc = "parsed"
    /\ w_payload = <<END_BYTE>>
    /\ w_damage = [kind |-> "flip", pos |-> Len(w_sent) - 1, bit |-> 7]
    /\ w_buf # w_sent
    /\ w_parsed = None

\* C13: _mk_frame raises for every payload longer than MAX_LEN - 7 and makes
\* no frame; for every payload of at most MAX_LEN - 7 bytes it returns a frame
\* of exactly len(payload) + 7 bytes
C13_PayloadLimit ==
    c_pc \in {"raised", "encoded", "decoded"} =>
        IF Len(c_payload) > MAX_LEN - 7
        THEN c_pc = "raised" /\ c_frame = ValueError
        ELSE /\ c_pc # "raised"
             /\ c_frame # ValueError
             /\ Len(c_frame) = Len(c_payload) + 7

\* a payload one byte too long was refused
C13_Witness ==
    /\ c_pc = "raised"
    /\ Len(c_payload) = MAX_LEN - 7 + 1
    /\ c_frame = ValueError

\* every byte of the line can be decoded
Decodable == \A i \in 1..Len(LineBytes) : LineBytes[i] # BadByte

\* what C14 says parse_line returns for the line
ExpectedCommand ==
    IF pl_head = T_POLL THEN <<"POLL", pl_arg.trimmed>>
    ELSE IF pl_head = T_SETID /\ Len(pl_arg.trimmed) \in 1..8
    THEN <<"SETID", pl_arg.trimmed>>
    ELSE None

\* C14 as stated: None for every line whose verb is neither POLL nor SETID
\* and for every SETID line whose trimmed argument has not 1..8 characters, a
\* SETID command with exactly the trimmed argument when it has 1..8
\* characters, a POLL command with the argument for every POLL line
C14_ParseLineByVerb ==
    pl_pc = "parsed" => pl_ret = ExpectedCommand

\* C14: the same for every line whose bytes can be decoded; a line with a
\* byte that cannot be decoded gives None whatever its verb
C14_ParseLineOfDecodable ==
    pl_pc = "parsed" => pl_ret = (IF Decodable THEN ExpectedCommand ELSE None)

\* " SETID: AB<TAB>" ending in CR LF gave the SETID command for "AB"
C14_Witness ==
    /\ pl_pc = "parsed"
    /\ pl_lead = <<" ">>
    /\ pl_head = T_SETID
    /\ pl_arg.raw = <<" ", "A", "B", "\t">>
    /\ pl_end = <<"\r", NL>>
    /\ pl_ret = <<"SETID", IdAB>>

\* the statically configured id counts when it is a string of 1..8 characters
ConfigYields == bt_config.kind = "str" /\ Len(bt_config.val) \in 1..8

\* the persisted id counts when NVS opens and holds a blob of 1..8 decodable
\* bytes
NvsYields ==
    /\ bt_nvs.ok
    /\ bt_nvs.present
    /\ Len(bt_nvs.blob) \in 1..8
    /\ \A i \in 1..Len(bt_nvs.blob) : bt_nvs.blob[i] # BadByte

\* the code read on the pins A, B, C (a pin at ground reads 0)
PinCode == bt_pins.val[1] + 2 * bt_pins.val[2] + 4 * bt_pins.val[3]

StrapsYield == bt_pins.ok /\ PinCode \in 1..5

\* C15: at boot the identifier is the configured id if that is a string of
\* 1..8 characters, else the id persisted in NVS, else the strap id "01".."05"
\* for the codes 1..5 (0, 6 and 7 give none), else the fallback "01"
C15_BootPriority ==
    bt_pc = "up" =>
        bt_id = (IF ConfigYields THEN bt_config.val
                 ELSE IF NvsYields THEN bt_nvs.blob
                 ELSE IF StrapsYield
                 THEN <<<<"0", "1">>, <<"0", "2">>, <<"0", "3">>, <<"0", "4">>,
                        <<"0", "5">>>>[PinCode]
                 ELSE <<"0", "1">>)

\* a configured "02" won over a persisted "07" and over the straps reading 5
C15_Witness ==
    /\ bt_pc = "up"
    /\ bt_config = [kind |-> "str", val |-> Id02]
    /\ bt_nvs = [ok |-> TRUE, present |-> TRUE, blob |-> Id07]
    /\ bt_pins = [ok |-> TRUE, val |-> <<1, 0, 1>>]
    /\ bt_id = Id02

\* poll_status has been called and has returned
PollReturned == _tick > 0 /\ a_op \in {"none", "request"}

\* C16: every call to poll_status returns one status per configured device,
\* in configured order, also on the calls where no sweep is due
C16_EveryCallReturnsAllDevices ==
    PollReturned =>
        /\ Len(last_out) = Len(GROUP_IDS)
        /\ \A i \in 1..Len(GROUP_IDS) : last_out[i].dd_id = GROUP_IDS[i]

\* C17: the keys of the terminal's state table are the configured device ids,
\* no more and no fewer, in every reachable state
C17_KeysAreConfiguredIds == DOMAIN states = GroupIdSet

\* in physical mode a sweep has stored a state, and request_status has been
\* called with an id that is not configured
C17_Witness ==
    /\ ~simulate
    /\ _tick >= Period
    /\ a_op = "none"
    /\ req_id \notin GroupIdSet
    /\ \E g \in GroupIdSet : states[g] # STATE_UNKNOWN
    /\ DOMAIN states = GroupIdSet

\* C18: every value in the terminal's state table is Unknown, Present or
\* Absent, whatever payload byte a valid status reply carried
C18_StatesArePresenceStates ==
    \A g \in DOMAIN states :
        states[g] \in {STATE_UNKNOWN, STATE_PRESENT, STATE_ABSENT}

\* a step in which uart.write raised inside _write
WriteFaulted == x_fault' = "write" /\ n_faults' = n_faults + 1

\* a step in which uart.any or uart.read raised inside _read_all
ReadFaulted == x_fault' = "read" /\ n_faults' = n_faults + 1

TerminalErrors == error_count + tx_errors + rx_errors
DetectorErrors == dl_setid_err_count

\* a step of the terminal's loop that met a transport, protocol or
\* persistence fault, and the same for the detector's loop
TerminalFaulted == tl_pc' # tl_pc /\ tl_fault' \in CountedKinds
DetectorFaulted == dl_pc = "body" /\ dl_pc' = "sleep" /\ dl_fault' \in CountedKinds

\* after the fault the loop goes on: the terminal moves to its next call and
\* the detector reaches the sleep that ends the iteration
LoopGoesOn ==
    [][/\ TerminalFaulted => tl_pc' \in {"refresh", "feed"}
       /\ DetectorFaulted => dl_pc' = "sleep"]_vars

\* C20: on both nodes a transport, protocol or persistence fault met in an
\* iteration is caught, an error counter of the node goes up, and the loop
\* goes on to its next iteration
C20_FaultCountedLoopGoesOn ==
    [][/\ TerminalFaulted =>
            /\ TerminalErrors' > TerminalErrors
            /\ tl_pc' \in {"refresh", "feed"}
       /\ DetectorFaulted =>
            /\ DetectorErrors' > DetectorErrors
            /\ dl_pc' = "sleep"]_vars

----------------------------------------------------------------------------
(* C21: after failed attempt a (0-based) that is not the last one,
   _exchange_with_retry waits exactly BACKOFF_MS * (a + 1) when backoff is
   enabled and nothing when it is disabled; nothing is waited after the last
   attempt. b_hist holds the waits of the call so far and attempt the number
   of attempts that have failed. *)
C21_BackoffWaits ==
    a_op = "retry" =>
        /\ Len(b_hist) = IF RETRY_CFG.BACKOFF_ENABLED
                         THEN (IF attempt < RETRY_CFG.MAX_RETRIES
                               THEN attempt ELSE RETRY_CFG.MAX_RETRIES - 1)
                         ELSE 0
        /\ \A a \in 0..(Len(b_hist) - 1) :
              b_hist[a + 1] = RETRY_CFG.BACKOFF_MS * (a + 1)

\* four attempts have failed with backoff on: three waits, none after the last
C21_Witness ==
    /\ a_op = "retry"
    /\ r_pc = "ret"
    /\ RETRY_CFG.BACKOFF_ENABLED
    /\ RETRY_CFG.MAX_RETRIES = 4
    /\ attempt = 4
    /\ b_hist = <<100, 200, 300>>

----------------------------------------------------------------------------
\* this step is detector d dispatching a line, whatever the line
DispatchesAny(d) ==
    /\ d \in population
    /\ d_pc[d] = "lines"
    /\ dd_buf'[d] # dd_buf[d]

\* this step is an iteration of detector d that found no complete line
NoInput(d) ==
    /\ d \in population
    /\ d_pc[d] = "top"
    /\ d_pc'[d] = "top"

\* C22: the detector's active identifier changes only through a SETID line
\* whose persistence succeeded, and then to that line's identifier; a POLL
\* line, a SETID whose persistence failed, a line parse_line refuses and an
\* iteration without input leave it as it was
C22_IdChangesOnlyByPersistedSetId ==
    [][\A d \in Detectors :
         /\ DETECTOR_ID'[d] # DETECTOR_ID[d] =>
               /\ DispatchesAny(d)
               /\ parse_line(NextLine(d)) = <<"SETID", DETECTOR_ID'[d]>>
               /\ last_disp'[d] = [cmd |-> "SETID", arg |-> DETECTOR_ID'[d], ok |-> TRUE]
               /\ nvs'[d] = Utf8Encode(DETECTOR_ID'[d])
         /\ (DispatchesAny(d) /\ parse_line(NextLine(d)) = None) =>
               DETECTOR_ID'[d] = DETECTOR_ID[d]
         /\ (DispatchesAny(d) /\ last_disp'[d].cmd = "POLL") =>
               DETECTOR_ID'[d] = DETECTOR_ID[d]
         /\ (DispatchesAny(d) /\ last_disp'[d].cmd = "SETID" /\ ~last_disp'[d].ok) =>
               DETECTOR_ID'[d] = DETECTOR_ID[d]
         /\ NoInput(d) => DETECTOR_ID'[d] = DETECTOR_ID[d]
      ]_vars

\* a SETID:07 failed to persist and left the boot identifier, then a
\* SETID:12345678 persisted and became the identifier
C22_Witness ==
    /\ setid_err_count[1] = 1
    /\ setid_ok_count[1] = 1
    /\ nvs[1] = Id8
    /\ DETECTOR_ID[1] = Id8
    /\ dd_tx[1] = <<AckSetIdText(FALSE, Id07), AckSetIdText(TRUE, Id8)>>

----------------------------------------------------------------------------
\* lines the detector does not recognise: an unknown verb, bytes that do not
\* decode, a SETID with no identifier or one of nine characters, a bare
\* terminator
RefusedLines ==
    {<<"P", "I", "N", "G", NL>>, <<"P", "O", "L", "L", ":", BadByte, NL>>,
     Line(T_SETID, <<>>), Line(T_SETID, Id9), <<NL>>}

\* C23: an unrecognized or malformed line is discarded: nothing is written to
\* the link, and the identifier and the four command counters stay as they
\* were
C23_RefusedLineDiscarded ==
    [][\A d \in Detectors : \A l \in RefusedLines :
         Dispatches(d, l) =>
            /\ dd_tx'[d] = dd_tx[d]
            /\ DETECTOR_ID'[d] = DETECTOR_ID[d]
            /\ ok_count'[d] = ok_count[d]
            /\ nok_count'[d] = nok_count[d]
            /\ setid_ok_count'[d] = setid_ok_count[d]
            /\ setid_err_count'[d] = setid_err_count[d]
      ]_vars

\* two lines were received and consumed, and nothing was written or counted
C23_Witness ==
    /\ n_lines = 2
    /\ dd_air[1] = <<>>
    /\ dd_rx[1] = <<>>
    /\ dd_buf[1] = <<>>
    /\ d_pc[1] = "top"
    /\ dd_tx[1] = <<>>
    /\ ok_count[1] = 0
    /\ nok_count[1] = 0
    /\ setid_ok_count[1] = 0
    /\ setid_err_count[1] = 0

----------------------------------------------------------------------------
\* C24: the active identifier of a running detector has between 1 and 8
\* characters in every reachable state, whichever boot source produced it
\* and whatever SETID and POLL lines it has received
C24_IdLength ==
    \A d \in population : Len(DETECTOR_ID[d]) >= 1 /\ Len(DETECTOR_ID[d]) <= 8

\* the detector took an eight-character identifier, was reset, and booted
\* with it again
C24_Witness ==
    /\ population = {1}
    /\ bt_config.kind = "none"
    /\ n_lines = 1
    /\ setid_ok_count[1] = 0
    /\ nvs[1] = Id8
    /\ DETECTOR_ID[1] = Id8

----------------------------------------------------------------------------
\* no identifier is configured statically
NoStaticId == _get_id_from_config(bt_config) = None

\* C25: after a SETID:<new> that was acknowledged OK, a restart of the
\* detector with no statically configured identifier resolves the
\* identifier to <new>
C25_RestartKeepsSetId ==
    [][(/\ bt_pc = "boot"
        /\ bt_pc' = "up"
        /\ NoStaticId
        /\ last_disp[1].cmd = "SETID"
        /\ last_disp[1].ok)
          => DETECTOR_ID'[1] = last_disp[1].arg]_vars

----------------------------------------------------------------------------
\* C26: with the shipped configuration the time a physical sweep in which
\* every exchange times out keeps the loop between two watchdog feeds is,
\* per device, the three timeouts 500, 750, 1125 and the two backoffs 100,
\* 200, over the five devices, and that is below WATCHDOG_TIMEOUT_MS; a sweep
\* in which replies come takes less
C26_SweepBelowWatchdog ==
    /\ sw_ms < WATCHDOG_TIMEOUT_MS
    /\ (sw_pc = "swept" /\ sw_silent) =>
          sw_ms = 5 * ((500 + 750 + 1125) + (100 + 200))
    /\ sw_ms <= 5 * ((500 + 750 + 1125) + (100 + 200))

\* the sweep ended with every exchange timed out: 13375 ms since the feed
C26_Witness ==
    /\ sw_pc = "swept"
    /\ sw_silent
    /\ sw_idx = 5
    /\ sw_ms = 13375

----------------------------------------------------------------------------
\* the iteration in progress has got past feed_watchdog and is at its state
\* update, its display refresh or its timed wait
AtWork == tl_pc \in {"update", "refresh", "testing"}

----------------------------------------------------------------------------
\* the lines of the record of dispatches
DispLines == [i \in 1..Len(disp_log) |-> disp_log[i].line]

\* what the claim expects on the link for a record of dispatched lines, from
\* the identifier id on: an acknowledgement for each POLL addressed to the
\* detector or to all, an ACKSETID for each SETID, nothing for other lines
RECURSIVE ExpectedTx(_, _)
ExpectedTx(id, log) ==
    IF log = <<>> THEN <<>>
    ELSE LET p == parse_line(Head(log).line)
         IN  IF p = None THEN ExpectedTx(id, Tail(log))
             ELSE IF p[1] = "POLL"
             THEN (IF p[2] = id \/ p[2] \in AllSpellings
                   THEN <<AckText(id, measure_state)>> ELSE <<>>)
                  \o ExpectedTx(id, Tail(log))
             ELSE <<AckSetIdText(Head(log).ok, p[2])>>
                  \o ExpectedTx(IF Head(log).ok THEN p[2] ELSE id, Tail(log))

\* C28: a line that arrives split across several reads is buffered and
\* dispatched once, only after its terminator has arrived; complete lines
\* are dispatched in arrival order, each once, and the replies are written
\* in that order: the dispatched lines are the first lines sent, the bytes
\* not yet dispatched are in the buffer, in the UART or on their way, in
\* order, and the writes are the replies to the dispatched lines in order
C28_LinesInOrderOnce ==
    /\ Len(disp_log) <= Len(sent_log)
    /\ DispLines = SubSeq(sent_log, 1, Len(disp_log))
    /\ \A i \in 1..Len(disp_log) :
          disp_log[i].line[Len(disp_log[i].line)] = NL
    /\ Flatten(DispLines) \o dd_buf[1] \o dd_rx[1] \o Flatten(dd_air[1])
          = Flatten(sent_log)
    /\ dd_tx[1] = ExpectedTx(boot_id, disp_log)

\* POLL:all and SETID:07 were sent, the second before the first was read
\* whole; both were dispatched in that order and answered in that order
C28_Witness ==
    /\ sent_log = <<Line(T_POLL, <<"a", "l", "l">>), Line(T_SETID, Id07)>>
    /\ DispLines = sent_log
    /\ disp_log[2].ok
    /\ dd_tx[1] = <<AckText(boot_id, measure_state), AckSetIdText(TRUE, Id07)>>

----------------------------------------------------------------------------
\* a step in which an attempt of the call ends without a reply, and a step
\* in which it ends with one
AttemptTimedOut == r_pc = "rx" /\ r_pc' # "rx" /\ x_ret' = None
AttemptReplied == r_pc = "rx" /\ x_ret' # None

\* _exchange_with_retry has run out of attempts
GaveUp == a_op = "retry" /\ r_pc = "ret" /\ attempt = RETRY_CFG.MAX_RETRIES

\* C29 as stated: when _exchange_with_retry gives up on a physical radio it
\* returns None and the timeout counter has been incremented; the counter
\* grows by one for each attempt that timed out and never for an attempt
\* that returned a reply
C29_TimeoutCountedAlways ==
    /\ [](GaveUp => x_ret = None /\ timeouts = attempt /\ timeouts > 0)
    /\ [][/\ AttemptTimedOut => timeouts' = timeouts + 1
          /\ AttemptReplied => timeouts' = timeouts]_vars

\* C29 amended: when _exchange_with_retry gives up on a physical radio it
\* returns None; on a radio that keeps statistics the timeout counter grows
\* by one for each attempt that timed out, so it stands at the number of
\* attempts, and never for an attempt that returned a reply; a radio
\* without statistics counts nothing
C29_TimeoutCounted ==
    /\ [](GaveUp => /\ x_ret = None
                    /\ timeouts = IF stats THEN attempt ELSE 0
                    /\ attempt > 0)
    /\ [][/\ AttemptTimedOut =>
               timeouts' = IF stats THEN timeouts + 1 ELSE timeouts
          /\ AttemptReplied => timeouts' = timeouts]_vars

\* three attempts timed out on a radio with statistics: the call returned
\* None and the counter stands at three
C29_Witness ==
    /\ stats
    /\ GaveUp
    /\ x_ret = None
    /\ timeouts = 3

\* an attempt was answered after two had timed out: the counter stands at two
C29_ReplyWitness ==
    /\ stats
    /\ a_op = "retry"
    /\ r_pc = "ret"
    /\ x_ret # None
    /\ attempt = 2
    /\ timeouts = 2

----------------------------------------------------------------------------
\* C30: statistics have no control-flow effect: under the same operations
\* and the same transport behaviour, a radio with statistics and a radio
\* without return the same results and write the same bytes. Whatever step
\* one radio takes, the other can take it under the same transport
\* behaviour, and after it the two radios differ in their statistics alone:
\* the frame written, the count _write returned, the bytes read, the
\* attempt, the waits and the result are the same
C30_StatsNoControlFlow ==
    /\ tw_phase = "follow" => ENABLED TwinReplay
    /\ tw_phase = "compare" => Visible(Radio) = Visible(tw_other)

\* both radios met a write fault and two time-outs and were answered on the
\* third attempt; one has counted, the other has not
C30_Witness ==
    /\ tw_phase = "compare"
    /\ stats # tw_other.stats
    /\ timeouts # tw_other.timeouts
    /\ tx_errors # tw_other.tx_errors
    /\ a_op = "retry"
    /\ r_pc = "ret"
    /\ x_ret # None
    /\ attempt = 2

----------------------------------------------------------------------------
\* _exchange_with_retry has returned a reply
Replied == a_op = "retry" /\ r_pc = "ret" /\ x_ret # None

\* C31: _exchange_with_retry stops at the first attempt that yields a reply:
\* the step in which an attempt is answered is the return of that reply;
\* once the call has returned no further exchange is made, nothing more is
\* written and nothing more is waited; at the return the number of single
\* exchanges is the index of the answered attempt plus one, and the waits
\* are those after the failed attempts before it
C31_StopsAtFirstReply ==
    /\ [](Replied =>
            /\ Len(t_hist) = attempt + 1
            /\ Len(b_hist) = IF RETRY_CFG.BACKOFF_ENABLED THEN attempt ELSE 0)
    /\ [][/\ (a_op = "retry" /\ AttemptReplied) => Replied'
          /\ Replied => UNCHANGED <<r_pc, x_ret, attempt, t_hist, b_hist, last_tx,
                                    tx_count>>]_vars

\* the third of four attempts was answered: three exchanges, two waits
C31_Witness ==
    /\ Replied
    /\ RETRY_CFG.MAX_RETRIES = 4
    /\ RETRY_CFG.BACKOFF_ENABLED
    /\ attempt = 2
    /\ Len(t_hist) = 3
    /\ b_hist = <<100, 200>>

----------------------------------------------------------------------------
\* what the claim expects in the box of a device whose table state is st
ShownFor(st) ==
    IF st = STATE_PRESENT THEN "ON"
    ELSE IF st = STATE_ABSENT THEN "OFF"
    ELSE "UNK"

\* after every _refresh_ui a device whose table state is Present or Absent
\* is shown so
UI_KnownStatesShown ==
    ui_pc = "poll" =>
        \A i \in 1..Len(GROUP_IDS) :
            states[GROUP_IDS[i]] \in {STATE_PRESENT, STATE_ABSENT}
                => screen[i] = ShownFor(states[GROUP_IDS[i]])

\* C32: after every _refresh_ui the state shown for each configured device
\* equals its state in the terminal's table (Present -> on, Absent -> off,
\* Unknown -> unknown), also when the table state has gone back to Unknown
\* after the device was shown as Present or Absent
C32_ShownEqualsTable ==
    ui_pc = "poll" =>
        \A i \in 1..Len(GROUP_IDS) :
            screen[i] = ShownFor(states[GROUP_IDS[i]])

----------------------------------------------------------------------------
\* a valid PING reply: a PING frame carrying b"OK"
ValidPingReply(resp) == resp # None /\ resp[1] = CMD_PING /\ resp[3] = <<79, 75>>

\* the step in which UART(...) raised, and the step in which the last ping
\* of the hardware check came back without a valid PING reply
UartInitRaised == k_pc = "uart" /\ k_raised'
HardwareCheckFailed ==
    /\ k_pc = "ping"
    /\ n_pings' = PingTries
    /\ ~ValidPingReply(k_last')

\* this step writes to the UART or reads from it
UartTouched ==
    \/ last_tx' # last_tx
    \/ w_ret' # w_ret
    \/ r_pc' = "rx"
    \/ Len(uart_rx') < Len(uart_rx)
    \/ SubSeq(uart_rx', 1, Len(uart_rx)) # uart_rx

\* C33: the transport mode only moves toward simulation: a radio configured
\* physical switches to simulation when UART initialization raises or when
\* the hardware check of up to 3 pings gets no valid PING reply, and stays
\* physical only after a valid PING reply; once simulate is true no step
\* sets it back, and no step writes to the UART or reads from it
C33_TowardSimulation ==
    /\ [](k_pc = "done" /\ ~simulate =>
            ~SIMULATE /\ uart_open /\ n_pings <= PingTries /\ ValidPingReply(k_last))
    /\ [][/\ simulate => simulate'
          /\ (~simulate /\ simulate') => (UartInitRaised \/ HardwareCheckFailed)
          /\ (UartInitRaised \/ HardwareCheckFailed) => simulate'
          /\ simulate => ~UartTouched]_vars

\* a radio configured physical whose three pings went unanswered: it is in
\* simulation, the last bytes it wrote are a ping's, and a status request
\* made since was answered by the simulation
C33_Witness ==
    /\ ~SIMULATE
    /\ simulate
    /\ k_pc = "done"
    /\ uart_open
    /\ n_pings = PingTries
    /\ k_last = None
    /\ r_pc = "ret"
    /\ x_cmd = CMD_GET_STS
    /\ x_ret # None
    /\ last_tx = _mk_frame(CMD_PING, 0, <<>>)

\* a radio configured physical that stayed physical: its second ping was
\* answered
C33_PhysicalWitness ==
    /\ ~simulate
    /\ k_pc = "done"
    /\ n_pings = 2
    /\ r_pc = "rx"

====
